---- MODULE Spec2Model ----
(***************************************************************************)
(* State-machine model of USpudGameState (SpudGameState.cpp): the snapshot *)
(* (UpdateFrom...) and restore (Restore...) directions of the SPUD         *)
(* persistence engine over one world of live actors and one SaveData.      *)
(***************************************************************************)
EXTENDS Integers, Sequences, FiniteSets, TLC

VARIABLES
    actors,      \* the live scene: actor slot -> live actor (Level->Actors of every level)
    classProps,  \* the live classes' reflected persistent properties, class -> sequence
    loadable,    \* the class paths FSoftClassPath::TryLoadClass resolves
    saveData,    \* USpudGameState::SaveData
    pc,          \* position inside RestoreLevel(ULevel*): "idle" or a loop of its body
    levelAsset,  \* the actors each level places when it is loaded, slot -> actor
    rl,          \* RestoreLevel's locals: Level, the loops' remaining items, RuntimeObjectsByGuid
    hookLog,     \* the hooks and the engine's writes and reads of the current call, in order
    lastOp,      \* what the last restore call (RestoreActor, RestoreLevel) did
    shot,        \* per actor, the actor as UpdateFromActor last saw it and where it wrote
    globalObjects, \* the live global objects (not actors): handle -> object
    levelNameOp  \* the object GetLevelNameForObject is asked about, and what it returned

vars == <<actors, classProps, loadable, levelAsset, saveData, pc, rl, hookLog, lastOp, shot,
          globalObjects, levelNameOp>>

-----------------------------------------------------------------------------
(* Bounds of the model *)

MaxActors == 3      \* actor slots of the live scene
MaxGuid == 1        \* GUIDs FGuid::NewGuid can hand out
MaxDestroyed == 2   \* entries of a level's DestroyedActors list
MaxVal == 1         \* largest property / core field value
MaxPieDigits == 2   \* digits of the number of a play-in-editor instance

ActorIds == 1..MaxActors
Guids == 1..MaxGuid
Values == 0..MaxVal

(* Program constants *)
CoreDataVersion == 1
InvalidGuid == 0

\* FGuid::IsValid
GuidIsValid(g) == g # InvalidGuid

\* The GUID a level designer typed into a placed actor's SpudGuid property.
StaticGuid == MaxGuid + 1

-----------------------------------------------------------------------------
(* Small helpers on maps (TMap) *)

MapPut(f, k, v) == [x \in (DOMAIN f) \cup {k} |-> IF x = k THEN v ELSE f[x]]

MapDrop(f, k) == [x \in (DOMAIN f) \ {k} |-> f[x]]

EmptyMap == [x \in {} |-> 0]

-----------------------------------------------------------------------------
(* Level names: FString as a sequence of characters *)

\* TEXT("UEDPIE_")
PiePrefix == <<"U", "E", "D", "P", "I", "E", "_">>

\* The characters GetLevelNameForObject drops with the prefix (line 163).
PiePrefixStripLen == 9

Digits == {"0", "1", "9"}

\* FChar::ToUpper on the letters that occur in the names.
ToUpper(ch) ==
    CASE ch = "a" -> "A"
      [] ch = "e" -> "E"
      [] ch = "p" -> "P"
      [] ch = "v" -> "V"
      [] OTHER -> ch

\* FString::StartsWith(Prefix), with its default ESearchCase::IgnoreCase
StartsWith(str, Prefix) ==
    /\ Len(str) >= Len(Prefix)
    /\ \A i \in 1..Len(Prefix) : ToUpper(str[i]) = ToUpper(Prefix[i])

\* FString::Right(Count): the rightmost Count characters, Count clamped to 0..Len().
Right(str, Count) ==
    IF Count <= 0 THEN <<>>
    ELSE IF Count >= Len(str) THEN str
    ELSE SubSeq(str, Len(str) - Count + 1, Len(str))

\* The position of the last "/" of the string, 0 when it has none (FString::Find
\* with ESearchDir::FromEnd).
FindLastSlash(str) ==
    IF \E i \in 1..Len(str) : str[i] = "/"
    THEN CHOOSE i \in 1..Len(str) : str[i] = "/" /\ \A j \in (i + 1)..Len(str) : str[j] # "/"
    ELSE 0

\* FString::Split("/", nullptr, &RightS, CaseSensitive, FromEnd): RightS is set to
\* what follows the last "/"; without a "/" the call fails and RightS keeps its value.
SplitFromEnd(str, RightS) ==
    IF FindLastSlash(str) = 0 THEN RightS
    ELSE SubSeq(str, FindLastSlash(str) + 1, Len(str))


\* GetLevelNameForObject, lines 162-163
StripPiePrefix(LevelName) ==
    IF StartsWith(LevelName, PiePrefix)
    THEN Right(LevelName, Len(LevelName) - PiePrefixStripLen)
    ELSE LevelName

\* Obj->GetOutermost() of an object that has no package.
NoPackage == <<"<null>">>

\* USpudGameState::GetLevelNameForObject, by the name of the outermost package
GetLevelNameForObject(OuterMost) ==
    IF OuterMost # NoPackage
    THEN StripPiePrefix(SplitFromEnd(OuterMost, <<>>))
    ELSE <<>>

NoLevelNameOp == [OuterMost |-> NoPackage, called |-> FALSE, LevelName |-> <<>>]

-----------------------------------------------------------------------------
(* The classes of the game: what the engine asks of a class or an actor.   *)

Classes == {"Door", "Gate", "Enemy", "Pickup", "Crate", "Hero", "Deco", "Settings", "Stats",
            "Arena", "Score", "Drone", "Brain", "Boss", "Ghost", "Wall"}

\* SpudPropertyUtil::IsPersistentObject: the class implements ISpudObject.
IsPersistentClass(c) == c # "Deco"

\* The class declares a SpudGuid property (SetGuidProperty succeeds on it).
HasGuidProperty(c) == c \in {"Enemy", "Pickup", "Hero", "Arena", "Score", "Drone", "Brain", "Boss", "Ghost"}

\* Actor->IsA(AGameModeBase / AGameStateBase / APawn / ACharacter): the class's kind.
KindOf(c) ==
    CASE c \in {"Hero", "Boss"} -> "Character"
      [] c = "Drone" -> "Pawn"
      [] c = "Arena" -> "GameMode"
      [] c = "Score" -> "GameState"
      [] c = "Brain" -> "Controller"
      [] OTHER -> "Actor"

\* ISpudObject::GetSpudRespawnMode of the class.
RespawnModeOf(c) ==
    CASE c = "Boss" -> "AlwaysRespawn"
      [] c = "Ghost" -> "NeverRespawn"
      [] OTHER -> "Default"

\* The class implements USpudObjectCallback.
ImplementsCallback(c) == c \in {"Enemy", "Door", "Settings"}   \* not "Gate", "Pickup", "Crate", "Hero", "Stats"

\* The level an actor belongs to (GetLevelNameForObject) is a field of the actor.
LevelNames == {"Map"}

\* SpudPropertyUtil::GetLevelActorName: the FName, unique within the level; the
\* model names an actor by its slot.
GetLevelActorName(id) == id

\* USpudGameState::GetClassName
GetClassName(a) == a.cls

\* SpudPropertyUtil::GetGuidProperty
GetGuidProperty(a) == a.guid

\* SpudPropertyUtil::IsRuntimeActor: the actor was created at runtime, not
\* loaded with its level.  GetSpawnedActorData handles a runtime actor whose
\* SpudGuid is missing or blank, so this is a fact of the actor of its own.
IsRuntimeActor(a) == a.runtime

\* Actor->HasAnyFlags(RF_ClassDefaultObject|RF_ArchetypeObject|RF_BeginDestroyed)
HasSkipFlags(a) == a.beginDestroyed

-----------------------------------------------------------------------------
(* Reflected properties.  A class's persistent properties in traversal     *)
(* order; prefix "" is the root, another prefix names the custom struct    *)
(* the property is nested in; struct = TRUE marks the struct container.    *)

RootPrefix == ""

Leaf(n) == [name |-> n, prefix |-> RootPrefix, struct |-> FALSE]
Nested(s, n) == [name |-> n, prefix |-> s, struct |-> FALSE]
Struct(s) == [name |-> s, prefix |-> RootPrefix, struct |-> TRUE]

\* SpudPropertyUtil::IsCustomStructProperty
IsCustomStructProperty(p) == p.struct

\* The leaves of a class: the (prefix, name) pairs that hold values.
LeafKeys(decls) == {<<decls[i].prefix, decls[i].name>> : i \in {j \in 1..Len(decls) : ~decls[j].struct}}

DefaultProps(decls) == [k \in LeafKeys(decls) |-> 0]

-----------------------------------------------------------------------------
(* FSpudClassMetadata: the class / property-name / prefix registry of one   *)
(* level (or of the global section).  An interned name is its own ID.      *)

PropertyIdNone == "<none>"

EmptyMeta == [ClassDefs |-> EmptyMap, ClassNames |-> {}, PropertyNames |-> {}, Prefixes |-> {}]

\* FSpudClassMetadata::GetClassDef: lookup, no mutation.
HasClassDef(Meta, cname) == cname \in DOMAIN Meta.ClassDefs

\* FSpudClassMetadata::FindOrAddClassDef: creates an empty definition if absent.
FindOrAddClassDef(Meta, cname) ==
    IF HasClassDef(Meta, cname) THEN Meta
    ELSE [Meta EXCEPT !.ClassDefs = MapPut(@, cname, [ClassName |-> cname, Properties |-> <<>>]),
                      !.ClassNames = @ \cup {cname}]

\* FSpudClassMetadata::FindOrAddClassIDFromName
FindOrAddClassIDFromName(Meta, cname) == [Meta EXCEPT !.ClassNames = @ \cup {cname}]

\* FSpudClassMetadata::GetClassNameFromID
GetClassNameFromID(Meta, cid) == cid

\* FSpudClassMetadata::GetPropertyIDFromName: lookup only.
GetPropertyIDFromName(Meta, n) == IF n \in Meta.PropertyNames THEN n ELSE PropertyIdNone

\* The stored type tag of a leaf property (every leaf of the model is an integer).
DataTypeOf(p) == "int"

PropertyDef(p) == [PropertyID |-> p.name, PrefixID |-> p.prefix, DataType |-> DataTypeOf(p)]

\* FSpudClassDef::PropertyLookup: (prefix, name ID) -> index into Properties, 0 if none.
FindPropertyIndex(Props, prefix, pid) ==
    LET hits == {i \in 1..Len(Props) : Props[i].PrefixID = prefix /\ Props[i].PropertyID = pid}
    IN IF hits = {} THEN 0 ELSE CHOOSE i \in hits : \A j \in hits : i <= j

\* FSpudClassDef::PropertyLookup.Find(PrefixID): the prefix has an inner map.
HasPrefixLookup(Props, prefix) == \E i \in 1..Len(Props) : Props[i].PrefixID = prefix

\* The leaf sequence the live class's reflection produces now.
RECURSIVE RuntimeLeafDefs(_)
RuntimeLeafDefs(decls) ==
    IF decls = <<>> THEN <<>>
    ELSE IF Head(decls).struct THEN RuntimeLeafDefs(Tail(decls))
    ELSE <<PropertyDef(Head(decls))>> \o RuntimeLeafDefs(Tail(decls))

\* FSpudClassDef::MatchesRuntimeClass: the stored property sequence is the live one
\* (names, order, nesting).
MatchesRuntimeClass(ClassDef, decls) == ClassDef.Properties = RuntimeLeafDefs(decls)

-----------------------------------------------------------------------------
(* Snapshot of properties: SpudPropertyUtil::VisitPersistentProperties     *)
(* driving UpdateFromPropertyVisitor.  st = the class definition's         *)
(* Properties, the registry's names and prefixes, the blob and the offsets *)

SetOffset(Offsets, n, idx, off) ==
    [i \in 1..(IF Len(Offsets) < n THEN n ELSE Len(Offsets)) |->
        IF i = idx THEN off ELSE IF i <= Len(Offsets) THEN Offsets[i] ELSE 0]

\* UpdateFromPropertyVisitor::VisitProperty on a leaf whose definition is (found # 0)
\* or is not (found = 0) in the class definition: the definition is appended when
\* new, its offset is set to the blob's length, the value is appended to the blob.
StoreProperty(p, props, st, found) ==
    LET idx == IF found = 0 THEN Len(st.Properties) + 1 ELSE found
        n == IF found = 0 THEN Len(st.Properties) + 1 ELSE Len(st.Properties)
    IN [st EXCEPT !.Properties = IF found = 0 THEN Append(@, PropertyDef(p)) ELSE @,
                  !.Names = @ \cup {p.name},
                  !.Offsets = SetOffset(@, n, idx, Len(st.Data)),
                  !.Data = Append(@, props[<<p.prefix, p.name>>])]

\* UpdateFromPropertyVisitor::VisitProperty / GetNestedPrefix on one property.
UpdateFromProperty(p, props, st) ==
    IF IsCustomStructProperty(p)
    THEN [st EXCEPT !.Prefixes = @ \cup {p.name}]
    ELSE StoreProperty(p, props, st, FindPropertyIndex(st.Properties, p.prefix, p.name))

RECURSIVE VisitForUpdate(_, _, _)
VisitForUpdate(decls, props, st) ==
    IF decls = <<>> THEN st
    ELSE VisitForUpdate(Tail(decls), props, UpdateFromProperty(Head(decls), props, st))

-----------------------------------------------------------------------------
(* Core actor data *)

\* RootComp->Mobility == EComponentMobility::Movable, a setting of the class's root
\* component: the root of a Wall is static.
MovableRoot(c) == c # "Wall"

\* A faulty test of the root component: its mobility is not asked.
SimulatingRoot(a) == a.physics

\* The test of WriteCoreActorData and RestoreCoreActorData on the root component:
\* movable and simulating physics (a.physics: RootComp->IsSimulatingPhysics()).
PhysicsRoot(a) == MovableRoot(a.cls) /\ a.physics

\* A faulty WriteCoreActorData: writes the velocities of any root component.
WriteCoreActorDataAnyRoot(a) ==
    <<CoreDataVersion, a.core.Hidden, a.core.Transform, a.core.Velocity, a.core.AngularVelocity>>

\* USpudGameState::WriteCoreActorData
WriteCoreActorData(a) ==
    <<CoreDataVersion, a.core.Hidden, a.core.Transform,
      IF PhysicsRoot(a) THEN a.core.Velocity ELSE 0,
      IF PhysicsRoot(a) THEN a.core.AngularVelocity ELSE 0>>

\* A faulty RestoreCoreActorData: restores nothing.
KeepCoreActorData(a, Data) == a

\* A faulty RestoreCoreActorData: reads the fields whatever the version tag.
RestoreCoreActorDataAnyVersion(a, Data) ==
    [a EXCEPT !.core = [Hidden |-> Data[2], Transform |-> Data[3],
                        Velocity |-> IF PhysicsRoot(a) THEN Data[4] ELSE @.Velocity,
                        AngularVelocity |-> IF PhysicsRoot(a) THEN Data[5] ELSE @.AngularVelocity]]

\* USpudGameState::RestoreCoreActorData
RestoreCoreActorData(a, Data) ==
    LET InVersion == IF Len(Data) >= 1 THEN Data[1] ELSE 0
    IN IF InVersion = 1
       THEN [a EXCEPT !.core = [Hidden |-> Data[2], Transform |-> Data[3],
                                Velocity |-> IF PhysicsRoot(a) THEN Data[4] ELSE @.Velocity,
                                AngularVelocity |-> IF PhysicsRoot(a) THEN Data[5] ELSE @.AngularVelocity]]
       ELSE a

-----------------------------------------------------------------------------
(* Restore of properties: VisitPersistentProperties driving a              *)
(* RestorePropertyVisitor.  rst = the stored-property iterator (fast path), *)
(* the reader's position in the blob, the object's properties so far, and  *)
(* whether the iterator was dereferenced at the end of the stored list.    *)

\* SpudPropertyUtil::RestoreProperty: decodes the next value of the reader into the
\* live property when the stored type is the live property's type.
RestoreProperty(p, StoredProperty, Data, rst) ==
    IF IsCustomStructProperty(p) THEN rst
    ELSE IF StoredProperty.DataType # DataTypeOf(p) THEN rst
    ELSE IF rst.pos < Len(Data)
         THEN [rst EXCEPT !.props = [@ EXCEPT ![<<p.prefix, p.name>>] = Data[rst.pos + 1]],
                          !.pos = @ + 1]
         ELSE rst

\* RestoreFastPropertyVisitor::VisitProperty, its last statement: the stored-property
\* iterator moves on after every property that is not a custom struct.
AdvanceIterator(p, rst) == IF ~IsCustomStructProperty(p) THEN [rst EXCEPT !.it = @ + 1] ELSE rst

\* RestoreFastPropertyVisitor::VisitProperty
FastVisitProperty(p, ClassDef, Meta, Data, rst) ==
    AdvanceIterator(p, IF rst.it > Len(ClassDef.Properties)
                       THEN [rst EXCEPT !.pastEnd = TRUE]
                       ELSE RestoreProperty(p, ClassDef.Properties[rst.it], Data, rst))

\* RestoreSlowPropertyVisitor::VisitProperty, once the property's index in the class
\* definition is looked up (0: not found).
SlowRestoreAt(p, ClassDef, Data, rst, PropertyIndex) ==
    IF PropertyIndex = 0 THEN rst
    ELSE RestoreProperty(p, ClassDef.Properties[PropertyIndex], Data, rst)

\* RestoreSlowPropertyVisitor::VisitProperty
SlowVisitProperty(p, ClassDef, Meta, Data, rst) ==
    IF IsCustomStructProperty(p) THEN rst
    ELSE IF ~HasPrefixLookup(ClassDef.Properties, p.prefix) THEN rst
    ELSE IF GetPropertyIDFromName(Meta, p.name) = PropertyIdNone THEN rst
    ELSE SlowRestoreAt(p, ClassDef, Data, rst,
             FindPropertyIndex(ClassDef.Properties, p.prefix, GetPropertyIDFromName(Meta, p.name)))

\* RestorePropertyVisitor::GetNestedPrefix (lookup only): the properties nested in
\* a struct are visited when the struct's prefix is registered.
PrefixKnown(Meta, prefix) == prefix = RootPrefix \/ prefix \in Meta.Prefixes

RECURSIVE VisitForRestore(_, _, _, _, _, _)
VisitForRestore(decls, fast, ClassDef, Meta, Data, rst) ==
    IF decls = <<>> THEN rst
    ELSE VisitForRestore(Tail(decls), fast, ClassDef, Meta, Data,
             IF ~PrefixKnown(Meta, Head(decls).prefix) THEN rst
             ELSE IF fast THEN FastVisitProperty(Head(decls), ClassDef, Meta, Data, rst)
             ELSE SlowVisitProperty(Head(decls), ClassDef, Meta, Data, rst))

\* What a property restore reports: the properties, the path taken, and whether the
\* fast path dereferenced its iterator past the stored list.
PathResult(fast, rst) ==
    [props |-> rst.props, path |-> IF fast THEN "fast" ELSE "slow", pastEnd |-> rst.pastEnd]

\* USpudGameState::RestoreObjectPropertiesFast / RestoreObjectPropertiesSlow
RestoreObjectPropertiesBy(fast, decls, props, FromData, Meta, ClassDef) ==
    PathResult(fast, VisitForRestore(decls, fast, ClassDef, Meta, FromData.Data,
                         [it |-> 1, pos |-> 0, props |-> props, pastEnd |-> FALSE]))

\* A faulty RestoreObjectProperties: never asks whether the stored class definition
\* matches the live class and always takes the slow path.
RestoreObjectPropertiesSlowOnly(cname, decls, props, FromData, Meta) ==
    IF ~HasClassDef(Meta, cname)
    THEN [props |-> props, path |-> "none", pastEnd |-> FALSE]
    ELSE RestoreObjectPropertiesBy(FALSE, decls, props, FromData, Meta, Meta.ClassDefs[cname])

\* USpudGameState::RestoreObjectProperties: [props, path, pastEnd]
RestoreObjectProperties(cname, decls, props, FromData, Meta) ==
    IF ~HasClassDef(Meta, cname)
    THEN [props |-> props, path |-> "none", pastEnd |-> FALSE]
    ELSE RestoreObjectPropertiesBy(MatchesRuntimeClass(Meta.ClassDefs[cname], decls),
                                   decls, props, FromData, Meta, Meta.ClassDefs[cname])

-----------------------------------------------------------------------------
(* Routing: spawned (by GUID) or level-resident (by name) *)

IsA(kind, base) == kind = base \/ (kind = "Character" /\ base = "Pawn")

\* A faulty ShouldRespawnRuntimeActor: the actor's respawn mode is not asked.
ShouldRespawnRuntimeActorByKind(a) ==
    LET k == KindOf(a.cls)
    IN ~IsA(k, "GameMode") /\ ~IsA(k, "GameState") /\ ~IsA(k, "Pawn") /\ ~IsA(k, "Character")

\* USpudGameState::ShouldRespawnRuntimeActor
ShouldRespawnRuntimeActor(a) ==
    LET RespawnMode == RespawnModeOf(a.cls)
        k == KindOf(a.cls)
    IN CASE RespawnMode = "AlwaysRespawn" -> TRUE
         [] RespawnMode = "NeverRespawn" -> FALSE
         [] OTHER -> ~IsA(k, "GameMode") /\ ~IsA(k, "GameState")
                     /\ ~IsA(k, "Pawn") /\ ~IsA(k, "Character")

\* USpudGameState::ShouldActorBeRespawnedOnRestore
ShouldActorBeRespawnedOnRestore(a) == IsRuntimeActor(a) /\ ShouldRespawnRuntimeActor(a)

-----------------------------------------------------------------------------
(* The store: FSpudSaveData, FSpudLevelData and the object records *)

EmptyPropertyData == [Data |-> <<>>, PropertyOffsets |-> <<>>]

NewNamedObjectData(name) ==
    [Name |-> name, CoreData |-> <<>>, Properties |-> EmptyPropertyData, CustomData |-> <<>>]

NewSpawnedActorData(guid, cid) ==
    [Guid |-> guid, ClassID |-> cid, CoreData |-> <<>>, Properties |-> EmptyPropertyData,
     CustomData |-> <<>>]

NewLevelData(name) ==
    [Name |-> name, Metadata |-> EmptyMeta, LevelActors |-> EmptyMap,
     SpawnedActors |-> EmptyMap, DestroyedActors |-> <<>>]

EmptySaveData ==
    [GlobalData |-> [CurrentLevel |-> "", Metadata |-> EmptyMeta, Objects |-> EmptyMap],
     LevelDataMap |-> EmptyMap]

\* SaveData.LevelDataMap.Contents.Find(LevelName)
HasLevelData(sd, LevelName) == LevelName \in DOMAIN sd.LevelDataMap

\* A faulty GetLevelData: creates the level's record whatever AutoCreate says.
GetLevelDataCreating(sd, LevelName, AutoCreate) ==
    IF ~HasLevelData(sd, LevelName)
    THEN [sd EXCEPT !.LevelDataMap = MapPut(@, LevelName, NewLevelData(LevelName))]
    ELSE sd

\* USpudGameState::GetLevelData: the save data after the call (the level's record is
\* added when it is absent and AutoCreate is set).
GetLevelData(sd, LevelName, AutoCreate) ==
    IF ~HasLevelData(sd, LevelName) /\ AutoCreate
    THEN [sd EXCEPT !.LevelDataMap = MapPut(@, LevelName, NewLevelData(LevelName))]
    ELSE sd

\* The GUIDs in use: those of the live actors and of the stored spawned records.
UsedGuids(acts, sd) ==
    {acts[id].guid : id \in DOMAIN acts}
    \cup UNION {{sd.LevelDataMap[L].SpawnedActors[k].Guid : k \in DOMAIN sd.LevelDataMap[L].SpawnedActors}
                : L \in DOMAIN sd.LevelDataMap}

\* FGuid::NewGuid: a GUID that nothing carries (iss: the GUIDs in use).
NewGuid(iss) == CHOOSE g \in Guids \ iss : \A h \in Guids \ iss : g <= h

\* Guid.ToString(SPUDDATA_GUID_KEY_FORMAT): the digits of the GUID as a string, one
\* string per GUID.  The strings are numbered from GuidKeyBase on, outside the
\* range of the GUIDs, so that a key is never a GUID.
GuidKeyBase == 16

GuidKey(g) == GuidKeyBase + g

\* SpudPropertyUtil::SetGuidProperty: succeeds when the class has a SpudGuid property.
SetGuidProperty(a, g) == IF HasGuidProperty(a.cls) THEN [a EXCEPT !.guid = g] ELSE a

\* USpudGameState::GetSpawnedActorData once the GUID is settled: find, or add, the record.
FindSpawnedActorData(a, Guid, LD, AutoCreate) ==
    IF GuidKey(Guid) \notin DOMAIN LD.SpawnedActors /\ AutoCreate
    THEN [found |-> TRUE, key |-> GuidKey(Guid), actor |-> a,
          LD |-> [LD EXCEPT !.SpawnedActors =
                                MapPut(@, GuidKey(Guid), NewSpawnedActorData(Guid, GetClassName(a))),
                            !.Metadata = FindOrAddClassIDFromName(@, GetClassName(a))]]
    ELSE [found |-> GuidKey(Guid) \in DOMAIN LD.SpawnedActors, key |-> GuidKey(Guid),
          actor |-> a, LD |-> LD]

\* A faulty GetSpawnedActorData: the GuidOk check is left out.
GetSpawnedActorDataUnchecked(a, LD, AutoCreate, iss) ==
    FindSpawnedActorData(a, GetGuidProperty(a), LD, AutoCreate)

\* USpudGameState::GetSpawnedActorData: [found, key, actor, LD]
GetSpawnedActorData(a, LD, AutoCreate, iss) ==
    IF GuidIsValid(GetGuidProperty(a))
    THEN FindSpawnedActorData(a, GetGuidProperty(a), LD, AutoCreate)
    ELSE IF AutoCreate /\ HasGuidProperty(a.cls)
    THEN FindSpawnedActorData(SetGuidProperty(a, NewGuid(iss)), NewGuid(iss), LD, AutoCreate)
    ELSE [found |-> FALSE, key |-> GuidKey(GetGuidProperty(a)), actor |-> a, LD |-> LD]

\* A faulty GetLevelActorData: adds the record without looking for the name first
\* (TMap::Add on a key that exists replaces its value).
GetLevelActorDataReplacing(id, a, LD, AutoCreate) ==
    IF AutoCreate
    THEN [found |-> TRUE, key |-> GetLevelActorName(id), actor |-> a,
          LD |-> [LD EXCEPT !.LevelActors =
                                MapPut(@, GetLevelActorName(id), NewNamedObjectData(GetLevelActorName(id)))]]
    ELSE [found |-> GetLevelActorName(id) \in DOMAIN LD.LevelActors,
          key |-> GetLevelActorName(id), actor |-> a, LD |-> LD]

\* USpudGameState::GetLevelActorData: [found, key, actor, LD]
GetLevelActorData(id, a, LD, AutoCreate) ==
    IF GetLevelActorName(id) \notin DOMAIN LD.LevelActors /\ AutoCreate
    THEN [found |-> TRUE, key |-> GetLevelActorName(id), actor |-> a,
          LD |-> [LD EXCEPT !.LevelActors =
                                MapPut(@, GetLevelActorName(id), NewNamedObjectData(GetLevelActorName(id)))]]
    ELSE [found |-> GetLevelActorName(id) \in DOMAIN LD.LevelActors,
          key |-> GetLevelActorName(id), actor |-> a, LD |-> LD]

-----------------------------------------------------------------------------
(* Snapshot of one actor *)

\* What ISpudObjectCallback::SpudFinaliseSaveState writes through the custom data writer.
CustomBlobOf(a) == <<a.cls>>

NoSnapshot(a, LD) == [LD |-> LD, actor |-> a, hooks |-> <<>>, wrote |-> "none", key |-> 0]

\* The record of the actor in its container.
RecordOf(LD, where, key) ==
    IF where = "spawned" THEN LD.SpawnedActors[key] ELSE LD.LevelActors[key]

\* A faulty UpdateFromActor: the pre-save hook runs after the core data is written.
SaveStepsPreSaveLate(id, a) ==
    <<<<id, "WriteCoreActorData">>>>
    \o (IF ImplementsCallback(a.cls) THEN <<<<id, "PreSave">>>> ELSE <<>>)
    \o <<<<id, "VisitPersistentProperties">>>>
    \o (IF ImplementsCallback(a.cls) THEN <<<<id, "FinaliseSave">>, <<id, "PostSave">>>> ELSE <<>>)

\* UpdateFromActor, lines 803-830, in the order of its statements: the hooks of an
\* object with the callback interface around the two writes of the engine.
SaveSteps(id, a) ==
    (IF ImplementsCallback(a.cls) THEN <<<<id, "PreSave">>>> ELSE <<>>)
    \o <<<<id, "WriteCoreActorData">>, <<id, "VisitPersistentProperties">>>>
    \o (IF ImplementsCallback(a.cls) THEN <<<<id, "FinaliseSave">>, <<id, "PostSave">>>> ELSE <<>>)

\* UpdateFromActor, lines 795-830: the record gets the core data, the blob and the
\* offsets the visitor produced (st) and the custom data; the registry gets the
\* definitions and names the visitor added; the hooks run around it.
StoreRecord(id, a, LD, where, key, st) ==
    [LD |-> [LD EXCEPT
                !.Metadata = [@ EXCEPT !.ClassDefs[GetClassName(a)].Properties = st.Properties,
                                       !.PropertyNames = st.Names, !.Prefixes = st.Prefixes],
                !.SpawnedActors = IF where # "spawned" THEN @ ELSE
                    [@ EXCEPT ![key] = [@ EXCEPT
                        !.CoreData = WriteCoreActorData(a),
                        !.Properties = [Data |-> st.Data, PropertyOffsets |-> st.Offsets],
                        !.CustomData = IF ImplementsCallback(a.cls) THEN CustomBlobOf(a) ELSE @]],
                !.LevelActors = IF where # "level" THEN @ ELSE
                    [@ EXCEPT ![key] = [@ EXCEPT
                        !.CoreData = WriteCoreActorData(a),
                        !.Properties = [Data |-> st.Data, PropertyOffsets |-> st.Offsets],
                        !.CustomData = IF ImplementsCallback(a.cls) THEN CustomBlobOf(a) ELSE @]]],
     actor |-> a,
     hooks |-> SaveSteps(id, a),
     wrote |-> where, key |-> key]

\* UpdateFromActor, lines 789-804: nothing is written without a record; else the
\* property blob is emptied (the offsets are kept) and the properties are visited.
WriteRecord(id, where, got, decls) ==
    IF ~got.found THEN NoSnapshot(got.actor, got.LD)
    ELSE StoreRecord(id, got.actor, got.LD, where, got.key,
             VisitForUpdate(decls, got.actor.props,
                 [Properties |-> got.LD.Metadata.ClassDefs[GetClassName(got.actor)].Properties,
                  Names |-> got.LD.Metadata.PropertyNames,
                  Prefixes |-> got.LD.Metadata.Prefixes,
                  Data |-> <<>>,
                  Offsets |-> RecordOf(got.LD, where, got.key).Properties.PropertyOffsets]))

\* UpdateFromActor, line 761: the class definition exists from here on.
WithClassDef(a, LD) == [LD EXCEPT !.Metadata = FindOrAddClassDef(@, GetClassName(a))]

\* A faulty UpdateFromActor: an actor without spawned record is stored by its name.
WriteSpawnedOrLevel(id, got, decls) ==
    IF got.found THEN WriteRecord(id, "spawned", got, decls)
    ELSE WriteRecord(id, "level", GetLevelActorData(id, got.actor, got.LD, TRUE), decls)

UpdateFromActorFallback(id, a, LD, iss, decls) ==
    IF HasSkipFlags(a) THEN NoSnapshot(a, LD)
    ELSE IF ShouldActorBeRespawnedOnRestore(a)
    THEN WriteSpawnedOrLevel(id, GetSpawnedActorData(a, WithClassDef(a, LD), TRUE, iss), decls)
    ELSE WriteRecord(id, "level", GetLevelActorData(id, a, WithClassDef(a, LD), TRUE), decls)

\* USpudGameState::UpdateFromActor(Actor, LevelData): [LD, actor, hooks, wrote, key]
UpdateFromActor(id, a, LD, iss, decls) ==
    IF HasSkipFlags(a) THEN NoSnapshot(a, LD)
    ELSE IF ShouldActorBeRespawnedOnRestore(a)
    THEN WriteRecord(id, "spawned", GetSpawnedActorData(a, WithClassDef(a, LD), TRUE, iss), decls)
    ELSE WriteRecord(id, "level", GetLevelActorData(id, a, WithClassDef(a, LD), TRUE), decls)

\* The snapshot of this actor would keep a GUID made by FGuid::NewGuid (a GUID
\* that SetGuidProperty cannot store is dropped and takes nothing from the pool).
NeedsNewGuid(a) ==
    /\ ~HasSkipFlags(a) /\ ShouldActorBeRespawnedOnRestore(a)
    /\ ~GuidIsValid(GetGuidProperty(a)) /\ HasGuidProperty(a.cls)

-----------------------------------------------------------------------------
(* Restore of one actor *)

\* USpudGameState::PreRestoreObject
PreRestoreObject(id, a) == IF ImplementsCallback(a.cls) THEN <<<<id, "PreLoad">>>> ELSE <<>>

\* A faulty PostRestoreObject: SpudPostLoadState is called before SpudFinaliseLoadState.
PostRestoreObjectPostFirst(id, a, FromCustomData) ==
    IF ImplementsCallback(a.cls)
    THEN <<<<id, "PostLoad">>, <<id, "FinaliseLoad", FromCustomData>>>> ELSE <<>>

\* USpudGameState::PostRestoreObject: SpudFinaliseLoadState is given a reader over
\* the stored custom data.
PostRestoreObject(id, a, FromCustomData) ==
    IF ImplementsCallback(a.cls)
    THEN <<<<id, "FinaliseLoad", FromCustomData>>, <<id, "PostLoad">>>> ELSE <<>>

\* RestoreActor, lines 496-502, in the order of its statements.
RestoreSteps(id, a, FromCustomData) ==
    PreRestoreObject(id, a)
    \o <<<<id, "RestoreCoreActorData">>, <<id, "RestoreObjectProperties">>>>
    \o PostRestoreObject(id, a, FromCustomData)

\* RestoreActor, lines 488-502, with the record it found: the hooks, the core data
\* and the properties (r: what RestoreObjectProperties did).
RestoreActorWith(id, a, where, key, r, FromCustomData) ==
    [actor |-> [a EXCEPT !.props = r.props],
     hooks |-> RestoreSteps(id, a, FromCustomData),
     path |-> r.path, pastEnd |-> r.pastEnd, found |-> TRUE, where |-> where, key |-> key]

RestoreActorFrom(id, a, where, key, ActorData, Meta, decls) ==
    RestoreActorWith(id, RestoreCoreActorData(a, ActorData.CoreData), where, key,
        RestoreObjectProperties(GetClassName(a), decls, a.props, ActorData.Properties, Meta),
        ActorData.CustomData)

NotRestored(a, where, key) ==
    [actor |-> a, hooks |-> <<>>, path |-> "none", pastEnd |-> FALSE, found |-> FALSE,
     where |-> where, key |-> key]

\* RestoreActor, lines 485-487: which container is searched, without creating.
RestoreLookup(id, a, LD, where, got, decls) ==
    IF ~got.found THEN NotRestored(got.actor, where, got.key)
    ELSE RestoreActorFrom(id, got.actor, where, got.key, RecordOf(got.LD, where, got.key),
                          got.LD.Metadata, decls)

\* RestoreActor, lines 483-487: the lookup of the actor's record, [found, key, actor, LD].
RestoreActorLookup(id, a, LD) ==
    IF HasSkipFlags(a) THEN [found |-> FALSE, key |-> 0, actor |-> a, LD |-> LD]
    ELSE IF ShouldActorBeRespawnedOnRestore(a) THEN GetSpawnedActorData(a, LD, FALSE, {})
    ELSE GetLevelActorData(id, a, LD, FALSE)

\* A faulty RestoreActor: looks every actor up by name in LevelActors.
RestoreActorByName(id, a, LD, decls) ==
    IF HasSkipFlags(a) THEN NotRestored(a, "none", 0)
    ELSE RestoreLookup(id, a, LD, "level", GetLevelActorData(id, a, LD, FALSE), decls)

\* USpudGameState::RestoreActor(Actor, LevelData, RuntimeObjects):
\* [actor, hooks, path, pastEnd, found, where, key]
RestoreActor(id, a, LD, decls) ==
    IF HasSkipFlags(a) THEN NotRestored(a, "none", 0)
    ELSE IF ShouldActorBeRespawnedOnRestore(a)
    THEN RestoreLookup(id, a, LD, "spawned", GetSpawnedActorData(a, LD, FALSE, {}), decls)
    ELSE RestoreLookup(id, a, LD, "level", GetLevelActorData(id, a, LD, FALSE), decls)

-----------------------------------------------------------------------------
(* Live actors *)

DefaultCore == [Hidden |-> FALSE, Transform |-> 0, Velocity |-> 0, AngularVelocity |-> 0]

\* The root component of a freshly constructed actor of the class simulates physics.
SimulatesPhysicsByDefault(c) == c = "Enemy"

\* A freshly constructed actor (UWorld::SpawnActor, or a level's placed actor).
NewActor(c, level, guid, runtime, decls) ==
    [cls |-> c, level |-> level, guid |-> guid, runtime |-> runtime, beginDestroyed |-> FALSE,
     core |-> DefaultCore, physics |-> SimulatesPhysicsByDefault(c), props |-> DefaultProps(decls)]

\* A faulty selection of a level's actors: the level filter is left out.
ActorsOfWorld(acts, L) == DOMAIN acts

\* Level->Actors of the level of that name
ActorsOfLevel(acts, L) == {id \in DOMAIN acts : acts[id].level = L}

\* Slot 1 of a level holds its placed actor; runtime actors take the other slots.
RuntimeSlots == ActorIds \ {1}

FreeSlots(acts) == RuntimeSlots \ DOMAIN acts

MinOf(S) == CHOOSE x \in S : \A y \in S : x <= y

\* The actor is as its constructor leaves an actor of its class and identity.
IsFresh(a, decls) == a = NewActor(a.cls, a.level, a.guid, a.runtime, decls)

NoOp == [op |-> "none", id |-> 0, found |-> FALSE, where |-> "none", key |-> 0,
         path |-> "none", pastEnd |-> FALSE, fresh |-> FALSE]

IdleLocals == [Level |-> "", todoSpawn |-> {}, todoActors |-> {}, nextDestroyed |-> 1,
               RuntimeObjectsByGuid |-> EmptyMap]

-----------------------------------------------------------------------------
(* Snapshot calls *)

\* FSpudLevelData::PreUpdateFromWorld: the level's actor records are rebuilt by the
\* snapshot that follows; the destroyed list and the registry are kept.
PreUpdateFromWorld(LD) == [LD EXCEPT !.LevelActors = EmptyMap, !.SpawnedActors = EmptyMap]

\* One iteration of the loop of UpdateFromLevel(ULevel*): r is what UpdateFromActor did.
AfterActor(id, st, r) ==
    [LD |-> r.LD, actors |-> [st.actors EXCEPT ![id] = r.actor],
     issued |-> st.issued \cup {GetGuidProperty(r.actor)}, hooks |-> st.hooks \o r.hooks]

UpdateNextActor(id, st) ==
    IF IsPersistentClass(st.actors[id].cls)
    THEN AfterActor(id, st, UpdateFromActor(id, st.actors[id], st.LD, st.issued,
                                            classProps[st.actors[id].cls]))
    ELSE st

\* The loop of UpdateFromLevel(ULevel*) over Level->Actors, in array order.
RECURSIVE UpdateActorsOfLevel(_, _)
UpdateActorsOfLevel(ids, st) ==
    IF ids = {} THEN st
    ELSE UpdateActorsOfLevel(ids \ {MinOf(ids)}, UpdateNextActor(MinOf(ids), st))

\* USpudGameState::UpdateFromLevel(ULevel*): [LD, actors, issued, hooks]
UpdateFromLevelOp(L, LD, acts, iss) ==
    UpdateActorsOfLevel(ActorsOfLevel(acts, L),
        [LD |-> PreUpdateFromWorld(LD), actors |-> acts, issued |-> iss, hooks |-> <<>>])

\* USpudGameState::UpdateFromLevel(World, LevelName) -> UpdateFromWorldImpl(World, true, LevelName)
UpdateFromLevel(L) ==
    /\ pc = "idle"
    /\ Cardinality({id \in ActorsOfLevel(actors, L) : NeedsNewGuid(actors[id])})
          <= Cardinality(Guids \ UsedGuids(actors, saveData))
    /\ \E r \in {UpdateFromLevelOp(L, GetLevelData(saveData, L, TRUE).LevelDataMap[L],
                                   actors, UsedGuids(actors, saveData))} :
          /\ saveData' = [saveData EXCEPT !.GlobalData.CurrentLevel = "World",
                                          !.LevelDataMap = MapPut(@, L, r.LD)]
          /\ actors' = r.actors
          /\ hookLog' = r.hooks
    /\ lastOp' = NoOp
    /\ UNCHANGED <<classProps, loadable, levelAsset, pc, rl>>
    /\ UNCHANGED shot
    /\ UNCHANGED globalObjects
    /\ UNCHANGED levelNameOp

\* USpudGameState::UpdateFromActor(AActor*)
UpdateFromActorCall(id) ==
    /\ pc = "idle"
    /\ id \in DOMAIN actors
    /\ IsPersistentClass(actors[id].cls)
    /\ NeedsNewGuid(actors[id]) => Guids \ UsedGuids(actors, saveData) # {}
    /\ IF HasSkipFlags(actors[id])
       THEN /\ UNCHANGED <<saveData, actors, shot>>
            /\ hookLog' = <<>>
       ELSE \E r \in {UpdateFromActor(id, actors[id],
                          GetLevelData(saveData, actors[id].level, TRUE).LevelDataMap[actors[id].level],
                          UsedGuids(actors, saveData), classProps[actors[id].cls])} :
            /\ saveData' = [saveData EXCEPT !.LevelDataMap = MapPut(@, actors[id].level, r.LD)]
            /\ actors' = [actors EXCEPT ![id] = r.actor]
            /\ hookLog' = r.hooks
            /\ shot' = MapPut(shot, id, [actor |-> r.actor, wrote |-> r.wrote, key |-> r.key,
                                          decls |-> classProps[actors[id].cls]])
    /\ lastOp' = NoOp
    /\ UNCHANGED <<classProps, loadable, levelAsset, pc, rl>>
    /\ UNCHANGED globalObjects
    /\ UNCHANGED levelNameOp

\* USpudGameState::UpdateLevelActorDestroyed(AActor*), called by the host for a level
\* actor that is being destroyed.
UpdateLevelActorDestroyed(id) ==
    /\ pc = "idle"
    /\ id \in DOMAIN actors
    /\ ~IsRuntimeActor(actors[id])
    /\ actors[id].beginDestroyed
    /\ \E sd \in {GetLevelData(saveData, actors[id].level, TRUE)} :
          /\ Len(sd.LevelDataMap[actors[id].level].DestroyedActors) < MaxDestroyed
          /\ saveData' = [sd EXCEPT !.LevelDataMap[actors[id].level].DestroyedActors =
                                        Append(@, GetLevelActorName(id))]
    /\ hookLog' = <<>>
    /\ lastOp' = NoOp
    /\ UNCHANGED <<actors, classProps, loadable, levelAsset, pc, rl>>
    /\ UNCHANGED shot
    /\ UNCHANGED globalObjects
    /\ UNCHANGED levelNameOp

\* USpudGameState::ResetState
ResetState ==
    /\ pc = "idle"
    /\ saveData # EmptySaveData
    /\ saveData' = EmptySaveData
    /\ hookLog' = <<>>
    /\ lastOp' = NoOp
    /\ UNCHANGED <<actors, classProps, loadable, levelAsset, pc, rl>>
    /\ UNCHANGED shot
    /\ UNCHANGED globalObjects
    /\ UNCHANGED levelNameOp

-----------------------------------------------------------------------------
(* RestoreLevel of one ULevel: its three loops, one iteration per step. No *)
(* other call runs while pc # "idle" (the engine is single-threaded).      *)

\* A faulty order of the loops: the in-place restore before the respawn.
RestoreBeforeRespawn == <<"restore", "respawn", "destroy">>

\* Another faulty order: the destroyed actors are removed before the in-place restore.
DestroyBeforeRestore == <<"respawn", "destroy", "restore">>

\* The loops of RestoreLevel's body, in the order the body runs them.
PhaseOrder == <<"respawn", "restore", "destroy">>

PhaseAfter(p) ==
    LET i == CHOOSE j \in 1..Len(PhaseOrder) : PhaseOrder[j] = p
    IN IF i = Len(PhaseOrder) THEN "idle" ELSE PhaseOrder[i + 1]

\* Entering a loop fixes what it iterates: the container as it is then.
EnterPhase(p, locals, sd, acts) ==
    LET LD == sd.LevelDataMap[locals.Level]
    IN CASE p = "respawn" -> [locals EXCEPT !.todoSpawn = DOMAIN LD.SpawnedActors]
         [] p = "restore" -> [locals EXCEPT !.todoActors = ActorsOfLevel(acts, locals.Level)]
         [] p = "destroy" -> [locals EXCEPT !.nextDestroyed = 1]
         [] OTHER -> IdleLocals

\* The spawned records RespawnActor can recreate.
Respawnable(LD) ==
    {k \in DOMAIN LD.SpawnedActors :
        GetClassNameFromID(LD.Metadata, LD.SpawnedActors[k].ClassID) \in loadable}

\* USpudGameState::RestoreLevel(ULevel*), up to its first loop
RestoreLevelBegin(L) ==
    /\ pc = "idle"
    /\ \E sd \in {GetLevelData(saveData, L, FALSE)} :
          /\ saveData' = sd
          /\ lastOp' = [NoOp EXCEPT !.op = "RestoreLevel", !.found = HasLevelData(sd, L),
                                    !.fresh = \A id \in ActorsOfLevel(actors, L) :
                                                 ~IsRuntimeActor(actors[id])]
          /\ IF ~HasLevelData(sd, L)
             THEN UNCHANGED <<pc, rl>>
             ELSE /\ Cardinality(Respawnable(sd.LevelDataMap[L])) <= Cardinality(FreeSlots(actors))
                  /\ pc' = PhaseOrder[1]
                  /\ rl' = EnterPhase(PhaseOrder[1], [IdleLocals EXCEPT !.Level = L], sd, actors)
    /\ hookLog' = <<>>
    /\ UNCHANGED <<actors, classProps, loadable, levelAsset>>
    /\ UNCHANGED shot
    /\ UNCHANGED globalObjects
    /\ UNCHANGED levelNameOp

\* Leaving a loop of RestoreLevel for the next one (or returning).
LeavePhase ==
    /\ pc' = PhaseAfter(pc)
    /\ rl' = EnterPhase(PhaseAfter(pc), rl, saveData, actors)
    /\ UNCHANGED <<actors, classProps, loadable, levelAsset, saveData, hookLog, lastOp>>

\* A faulty RespawnActor: spawns without asking whether the class was loaded.
RespawnActorUnresolved(SpawnedActor, Meta, Level) ==
    <<NewActor(GetClassNameFromID(Meta, SpawnedActor.ClassID), Level,
               IF HasGuidProperty(GetClassNameFromID(Meta, SpawnedActor.ClassID))
               THEN SpawnedActor.Guid ELSE InvalidGuid,
               TRUE, classProps[GetClassNameFromID(Meta, SpawnedActor.ClassID)])>>

\* A faulty RespawnActor: the stored GUID is not set on the new actor.
RespawnActorUntagged(SpawnedActor, Meta, Level) ==
    IF GetClassNameFromID(Meta, SpawnedActor.ClassID) \notin loadable THEN <<>>
    ELSE <<NewActor(GetClassNameFromID(Meta, SpawnedActor.ClassID), Level, InvalidGuid, TRUE,
                    classProps[GetClassNameFromID(Meta, SpawnedActor.ClassID)])>>

\* USpudGameState::RespawnActor: the new actor, or none when the class does not load.
RespawnActor(SpawnedActor, Meta, Level) ==
    LET ClassName == GetClassNameFromID(Meta, SpawnedActor.ClassID)
    IN IF ClassName \notin loadable THEN <<>>
       ELSE <<NewActor(ClassName, Level,
                       IF HasGuidProperty(ClassName) THEN SpawnedActor.Guid ELSE InvalidGuid,
                       TRUE, classProps[ClassName])>>

\* One iteration of the loop over LevelData->SpawnedActors (any iteration order).
RestoreLevelRespawn ==
    /\ pc = "respawn"
    /\ IF rl.todoSpawn = {} THEN LeavePhase
       ELSE \E k \in rl.todoSpawn :
            \E Actor \in {RespawnActor(saveData.LevelDataMap[rl.Level].SpawnedActors[k],
                                       saveData.LevelDataMap[rl.Level].Metadata, rl.Level)} :
               /\ actors' = IF Actor = <<>> THEN actors
                            ELSE MapPut(actors, MinOf(FreeSlots(actors)), Actor[1])
               /\ rl' = [rl EXCEPT !.todoSpawn = @ \ {k},
                                   !.RuntimeObjectsByGuid =
                                       IF Actor = <<>> THEN @
                                       ELSE MapPut(@, saveData.LevelDataMap[rl.Level].SpawnedActors[k].Guid,
                                                   MinOf(FreeSlots(actors)))]
               /\ pc' = pc
               /\ UNCHANGED <<classProps, loadable, levelAsset, saveData, hookLog, lastOp>>
    /\ UNCHANGED shot
    /\ UNCHANGED globalObjects
    /\ UNCHANGED levelNameOp

\* One iteration of the loop over Level->Actors (array order).
RestoreLevelRestore ==
    /\ pc = "restore"
    /\ IF rl.todoActors = {} THEN LeavePhase
       ELSE \E id \in {MinOf(rl.todoActors)} :
            /\ IF IsPersistentClass(actors[id].cls)
               THEN \E r \in {RestoreActor(id, actors[id], saveData.LevelDataMap[rl.Level],
                                           classProps[actors[id].cls])} :
                       /\ actors' = [actors EXCEPT ![id] = r.actor]
                       /\ saveData' = [saveData EXCEPT !.LevelDataMap[rl.Level] =
                                           RestoreActorLookup(id, actors[id], @).LD]
                       /\ hookLog' = hookLog \o r.hooks
                       /\ rl' = [rl EXCEPT !.todoActors = @ \ {id},
                                           !.RuntimeObjectsByGuid =
                                               IF GuidIsValid(GetGuidProperty(r.actor))
                                               THEN MapPut(@, GetGuidProperty(r.actor), id) ELSE @]
               ELSE /\ rl' = [rl EXCEPT !.todoActors = @ \ {id}]
                    /\ UNCHANGED <<actors, hookLog, saveData>>
            /\ pc' = pc
            /\ UNCHANGED <<classProps, loadable, levelAsset, lastOp>>
    /\ UNCHANGED shot
    /\ UNCHANGED globalObjects
    /\ UNCHANGED levelNameOp

\* USpudGameState::DestroyActor: the scene without the level's actor of that name.
DestroyActor(Name, Level, acts) ==
    IF \E id \in ActorsOfLevel(acts, Level) : GetLevelActorName(id) = Name
    THEN MapDrop(acts, CHOOSE id \in ActorsOfLevel(acts, Level) : GetLevelActorName(id) = Name)
    ELSE acts

\* A faulty destroy loop: a name that no live actor bears ends the RestoreLevel.
RestoreLevelDestroyStrict ==
    /\ pc = "destroy"
    /\ LET Destroyed == saveData.LevelDataMap[rl.Level].DestroyedActors
       IN IF rl.nextDestroyed > Len(Destroyed) THEN LeavePhase
          ELSE /\ actors' = DestroyActor(Destroyed[rl.nextDestroyed], rl.Level, actors)
               /\ rl' = IF actors' = actors THEN IdleLocals ELSE [rl EXCEPT !.nextDestroyed = @ + 1]
               /\ pc' = IF actors' = actors THEN "idle" ELSE pc
               /\ UNCHANGED <<classProps, loadable, levelAsset, saveData, hookLog, lastOp>>
    /\ UNCHANGED shot
    /\ UNCHANGED globalObjects
    /\ UNCHANGED levelNameOp

\* One iteration of the loop over LevelData->DestroyedActors (array order).
RestoreLevelDestroy ==
    /\ pc = "destroy"
    /\ LET Destroyed == saveData.LevelDataMap[rl.Level].DestroyedActors
       IN IF rl.nextDestroyed > Len(Destroyed) THEN LeavePhase
          ELSE /\ actors' = DestroyActor(Destroyed[rl.nextDestroyed], rl.Level, actors)
               /\ rl' = [rl EXCEPT !.nextDestroyed = @ + 1]
               /\ pc' = pc
               /\ UNCHANGED <<classProps, loadable, levelAsset, saveData, hookLog, lastOp>>
    /\ UNCHANGED shot
    /\ UNCHANGED globalObjects
    /\ UNCHANGED levelNameOp

\* USpudGameState::RestoreActor(AActor*)
RestoreActorCall(id) ==
    /\ pc = "idle"
    /\ id \in DOMAIN actors
    /\ IsPersistentClass(actors[id].cls)
    /\ IF HasSkipFlags(actors[id]) \/ ~HasLevelData(saveData, actors[id].level)
       THEN /\ UNCHANGED <<actors, saveData>>
            /\ hookLog' = <<>>
            /\ lastOp' = [NoOp EXCEPT !.op = "RestoreActor", !.id = id]
       ELSE \E r \in {RestoreActor(id, actors[id], saveData.LevelDataMap[actors[id].level],
                                   classProps[actors[id].cls])} :
            /\ actors' = [actors EXCEPT ![id] = r.actor]
            /\ saveData' = [saveData EXCEPT !.LevelDataMap[actors[id].level] =
                                RestoreActorLookup(id, actors[id], @).LD]
            /\ hookLog' = r.hooks
            /\ lastOp' = [op |-> "RestoreActor", id |-> id, found |-> r.found,
                          where |-> r.where, key |-> r.key, path |-> r.path,
                          pastEnd |-> r.pastEnd,
                          fresh |-> IsFresh(actors[id], classProps[actors[id].cls])]
    /\ UNCHANGED <<classProps, loadable, levelAsset, pc, rl, shot>>
    /\ UNCHANGED globalObjects
    /\ UNCHANGED levelNameOp

-----------------------------------------------------------------------------
(* Global objects: objects outside every level, stored in SaveData.GlobalData *)

\* The handles of the live global objects (apart from the actor slots).
GlobalIds == {MaxActors + 1}

\* A freshly constructed global object of the class.
NewGlobalObject(c, decls) == [cls |-> c, props |-> DefaultProps(decls)]

\* SpudPropertyUtil::GetGlobalObjectID: the SpudGuid if the object has one, else
\* its name; the model names a global object by its handle.
GetGlobalObjectID(g) == g

\* A faulty GetGlobalObjectData: creates the record whatever AutoCreate says.
GetGlobalObjectDataCreating(GD, ID, AutoCreate) ==
    IF ID \notin DOMAIN GD.Objects
    THEN [found |-> TRUE, GD |-> [GD EXCEPT !.Objects = MapPut(@, ID, NewNamedObjectData(ID))]]
    ELSE [found |-> TRUE, GD |-> GD]

\* USpudGameState::GetGlobalObjectData(ID, AutoCreate): [found, GD]
GetGlobalObjectData(GD, ID, AutoCreate) ==
    IF ID \notin DOMAIN GD.Objects /\ AutoCreate
    THEN [found |-> TRUE, GD |-> [GD EXCEPT !.Objects = MapPut(@, ID, NewNamedObjectData(ID))]]
    ELSE [found |-> ID \in DOMAIN GD.Objects, GD |-> GD]

\* UpdateFromGlobalObject, lines 315-332, in the order of its statements.
GlobalSaveSteps(g, o) ==
    (IF ImplementsCallback(o.cls) THEN <<<<g, "PreSave">>>> ELSE <<>>)
    \o <<<<g, "VisitPersistentProperties">>>>
    \o (IF ImplementsCallback(o.cls) THEN <<<<g, "FinaliseSave">>, <<g, "PostSave">>>> ELSE <<>>)

\* UpdateFromGlobalObject, lines 318-332: the record gets the blob and the offsets
\* the visitor produced (st) and the custom data; the global registry gets the
\* definitions and names the visitor added.
StoreGlobalRecord(g, o, GD, ID, st) ==
    [GD |-> [GD EXCEPT
                !.Metadata = [@ EXCEPT !.ClassDefs[GetClassName(o)].Properties = st.Properties,
                                       !.PropertyNames = st.Names, !.Prefixes = st.Prefixes],
                !.Objects = [@ EXCEPT ![ID] = [@ EXCEPT
                    !.Properties = [Data |-> st.Data, PropertyOffsets |-> st.Offsets],
                    !.CustomData = IF ImplementsCallback(o.cls) THEN CustomBlobOf(o) ELSE @]]],
     hooks |-> GlobalSaveSteps(g, o)]

\* UpdateFromGlobalObject, lines 308-323: the property blob is emptied (the offsets
\* are kept) and the properties are visited.
WriteGlobalRecord(g, o, GD, ID, decls) ==
    StoreGlobalRecord(g, o, GD, ID,
        VisitForUpdate(decls, o.props,
            [Properties |-> GD.Metadata.ClassDefs[GetClassName(o)].Properties,
             Names |-> GD.Metadata.PropertyNames,
             Prefixes |-> GD.Metadata.Prefixes,
             Data |-> <<>>,
             Offsets |-> GD.Objects[ID].Properties.PropertyOffsets]))

\* UpdateFromGlobalObject, line 307: the class definition exists from here on.
WithGlobalClassDef(o, GD) == [GD EXCEPT !.Metadata = FindOrAddClassDef(@, GetClassName(o))]

\* USpudGameState::UpdateFromGlobalObject(Obj, GetGlobalObjectData(Obj, true)): [GD, hooks]
UpdateFromGlobalObjectOp(g, o, GD, decls) ==
    WriteGlobalRecord(g, o,
        WithGlobalClassDef(o, GetGlobalObjectData(GD, GetGlobalObjectID(g), TRUE).GD),
        GetGlobalObjectID(g), decls)

\* USpudGameState::UpdateFromGlobalObject(UObject*)
UpdateFromGlobalObject(g) ==
    /\ pc = "idle"
    /\ g \in DOMAIN globalObjects
    /\ \E r \in {UpdateFromGlobalObjectOp(g, globalObjects[g], saveData.GlobalData,
                                          classProps[globalObjects[g].cls])} :
          /\ saveData' = [saveData EXCEPT !.GlobalData = r.GD]
          /\ hookLog' = r.hooks
    /\ lastOp' = NoOp
    /\ UNCHANGED <<actors, classProps, loadable, levelAsset, pc, rl, shot, globalObjects>>
    /\ UNCHANGED levelNameOp

\* RestoreGlobalObject, lines 733-737, in the order of its statements.
GlobalRestoreSteps(g, o, FromCustomData) ==
    PreRestoreObject(g, o)
    \o <<<<g, "RestoreObjectProperties">>>>
    \o PostRestoreObject(g, o, FromCustomData)

\* RestoreGlobalObject, lines 731-737, with the record it was given (r: what
\* RestoreObjectProperties did).
RestoreGlobalObjectWith(g, o, r, FromCustomData) ==
    [object |-> [o EXCEPT !.props = r.props],
     hooks |-> GlobalRestoreSteps(g, o, FromCustomData),
     path |-> r.path, pastEnd |-> r.pastEnd, found |-> TRUE]

\* USpudGameState::RestoreGlobalObject(Obj, GetGlobalObjectData(Obj, false)):
\* [object, hooks, path, pastEnd, found]
\* A faulty RestoreGlobalObject: takes the registry of a level, as RestoreActor does.
RestoreGlobalObjectFromLevel(g, o, GD, decls) ==
    RestoreGlobalObjectWith(g, o,
        RestoreObjectProperties(GetClassName(o), decls, o.props,
            GD.Objects[GetGlobalObjectID(g)].Properties,
            IF HasLevelData(saveData, "Map") THEN saveData.LevelDataMap["Map"].Metadata
            ELSE GD.Metadata),
        GD.Objects[GetGlobalObjectID(g)].CustomData)

\* RestoreGlobalObject, lines 731-737, with the record in the global section.
RestoreGlobalObjectFrom(g, o, GD, decls) ==
    RestoreGlobalObjectWith(g, o,
        RestoreObjectProperties(GetClassName(o), decls, o.props,
            GD.Objects[GetGlobalObjectID(g)].Properties, GD.Metadata),
        GD.Objects[GetGlobalObjectID(g)].CustomData)

RestoreGlobalObjectOp(g, o, GD, decls) ==
    IF ~GetGlobalObjectData(GD, GetGlobalObjectID(g), FALSE).found
    THEN [object |-> o, hooks |-> <<>>, path |-> "none", pastEnd |-> FALSE, found |-> FALSE]
    ELSE RestoreGlobalObjectFrom(g, o, GetGlobalObjectData(GD, GetGlobalObjectID(g), FALSE).GD, decls)

\* USpudGameState::RestoreGlobalObject(UObject*)
RestoreGlobalObject(g) ==
    /\ pc = "idle"
    /\ g \in DOMAIN globalObjects
    /\ \E r \in {RestoreGlobalObjectOp(g, globalObjects[g], saveData.GlobalData,
                                       classProps[globalObjects[g].cls])} :
          /\ globalObjects' = [globalObjects EXCEPT ![g] = r.object]
          /\ UNCHANGED levelNameOp
          /\ hookLog' = r.hooks
          /\ lastOp' = [op |-> "RestoreGlobalObject", id |-> g, found |-> r.found,
                        where |-> "global", key |-> GetGlobalObjectID(g), path |-> r.path,
                        pastEnd |-> r.pastEnd, fresh |-> FALSE]
    /\ saveData' = [saveData EXCEPT !.GlobalData =
                        GetGlobalObjectData(@, GetGlobalObjectID(g), FALSE).GD]
    /\ UNCHANGED <<actors, classProps, loadable, levelAsset, pc, rl, shot>>

-----------------------------------------------------------------------------
(* The game around the engine: what the host and gameplay do to the scene  *)

EnvDone == /\ hookLog' = <<>>
           /\ lastOp' = NoOp
           /\ UNCHANGED <<classProps, levelAsset, saveData, pc, rl, shot>>

\* Gameplay spawns a runtime actor; its SpudGuid is still blank.
SpawnRuntime(c, L) ==
    /\ pc = "idle"
    /\ FreeSlots(actors) # {}
    /\ c \in loadable
    /\ actors' = MapPut(actors, MinOf(FreeSlots(actors)),
                        NewActor(c, L, InvalidGuid, TRUE, classProps[c]))
    /\ UNCHANGED loadable
    /\ EnvDone
    /\ UNCHANGED globalObjects
    /\ UNCHANGED levelNameOp

\* Gameplay spawns a runtime actor and sets its SpudGuid property itself.
SpawnTagged(c, L) ==
    /\ pc = "idle"
    /\ FreeSlots(actors) # {}
    /\ c \in loadable
    /\ HasGuidProperty(c)
    /\ \A id \in DOMAIN actors : GetGuidProperty(actors[id]) # StaticGuid
    /\ actors' = MapPut(actors, MinOf(FreeSlots(actors)),
                        NewActor(c, L, StaticGuid, TRUE, classProps[c]))
    /\ UNCHANGED loadable
    /\ EnvDone
    /\ UNCHANGED globalObjects
    /\ UNCHANGED levelNameOp

\* Gameplay moves an actor and changes its properties to the pose v.
Pose(a, v) == [a EXCEPT !.core = [Hidden |-> v # 0, Transform |-> v, Velocity |-> v,
                                  AngularVelocity |-> v],
                        !.props = [k \in DOMAIN @ |-> v]]

Gameplay(id, v) ==
    /\ pc = "idle"
    /\ id \in DOMAIN actors
    /\ ~actors[id].beginDestroyed
    /\ actors[id] # Pose(actors[id], v)
    /\ actors' = [actors EXCEPT ![id] = Pose(@, v)]
    /\ UNCHANGED loadable
    /\ EnvDone
    /\ UNCHANGED globalObjects
    /\ UNCHANGED levelNameOp

\* Gameplay sets one property of an actor.
SetProperty(id, k, v) ==
    /\ pc = "idle"
    /\ id \in DOMAIN actors
    /\ k \in DOMAIN actors[id].props
    /\ actors[id].props[k] # v
    /\ actors' = [actors EXCEPT ![id].props[k] = v]
    /\ UNCHANGED loadable
    /\ EnvDone
    /\ UNCHANGED globalObjects
    /\ UNCHANGED levelNameOp

\* Gameplay switches the physics simulation of an actor's root component.
SetSimulatePhysics(id) ==
    /\ pc = "idle"
    /\ id \in DOMAIN actors
    /\ actors' = [actors EXCEPT ![id].physics = ~@]
    /\ UNCHANGED loadable
    /\ EnvDone
    /\ UNCHANGED globalObjects
    /\ UNCHANGED levelNameOp

\* The actor is constructed afresh with its class and identity (its level is loaded
\* again): class defaults everywhere else.
Reconstruct(id) ==
    /\ pc = "idle"
    /\ id \in DOMAIN actors
    /\ actors[id] # NewActor(actors[id].cls, actors[id].level, actors[id].guid,
                             actors[id].runtime, classProps[actors[id].cls])
    /\ actors' = [actors EXCEPT ![id] =
           NewActor(@.cls, @.level, @.guid, @.runtime, classProps[@.cls])]
    /\ UNCHANGED loadable
    /\ EnvDone
    /\ UNCHANGED globalObjects
    /\ UNCHANGED levelNameOp

\* Gameplay sets one property of a global object.
SetGlobalProperty(g, k, v) ==
    /\ pc = "idle"
    /\ g \in DOMAIN globalObjects
    /\ k \in DOMAIN globalObjects[g].props
    /\ globalObjects[g].props[k] # v
    /\ globalObjects' = [globalObjects EXCEPT ![g].props[k] = v]
    /\ UNCHANGED levelNameOp
    /\ UNCHANGED <<actors, loadable>>
    /\ EnvDone

\* A new version of the game declares other persistent properties for a class; its
\* actors and objects are constructed afresh from the new class.
SchemaDrift(c, decls) ==
    /\ pc = "idle"
    /\ classProps[c] # decls
    /\ classProps' = [classProps EXCEPT ![c] = decls]
    /\ levelAsset' = [id \in DOMAIN levelAsset |->
           IF levelAsset[id].cls = c
           THEN [levelAsset[id] EXCEPT !.props = DefaultProps(decls)] ELSE levelAsset[id]]
    /\ actors' = [id \in DOMAIN actors |->
           IF actors[id].cls = c
           THEN NewActor(c, actors[id].level, actors[id].guid, actors[id].runtime, decls)
           ELSE actors[id]]
    /\ hookLog' = <<>>
    /\ lastOp' = NoOp
    /\ UNCHANGED levelNameOp
    /\ globalObjects' = [g \in DOMAIN globalObjects |->
           IF globalObjects[g].cls = c THEN NewGlobalObject(c, decls) ELSE globalObjects[g]]
    /\ UNCHANGED <<loadable, saveData, pc, rl, shot>>

\* A level actor starts being destroyed (RF_BeginDestroyed) ...
BeginDestroy(id) ==
    /\ pc = "idle"
    /\ id \in DOMAIN actors
    /\ ~IsRuntimeActor(actors[id])
    /\ ~actors[id].beginDestroyed
    /\ actors' = [actors EXCEPT ![id].beginDestroyed = TRUE]
    /\ UNCHANGED loadable
    /\ EnvDone
    /\ UNCHANGED globalObjects
    /\ UNCHANGED levelNameOp

\* ... and is gone.
FinishDestroy(id) ==
    /\ pc = "idle"
    /\ id \in DOMAIN actors
    /\ actors[id].beginDestroyed
    /\ actors' = MapDrop(actors, id)
    /\ UNCHANGED loadable
    /\ EnvDone
    /\ UNCHANGED globalObjects
    /\ UNCHANGED levelNameOp

\* The host loads the map afresh: the scene is the level's placed actors.
LoadMap ==
    /\ pc = "idle"
    /\ actors # levelAsset
    /\ actors' = levelAsset
    /\ UNCHANGED loadable
    /\ EnvDone
    /\ UNCHANGED globalObjects
    /\ UNCHANGED levelNameOp

\* The level's placed actor is given another class in the editor, under the same
\* name; the game then runs the edited level.
ReplaceClass(id, c) ==
    /\ pc = "idle"
    /\ id \in DOMAIN levelAsset
    /\ levelAsset[id].cls # c
    /\ levelAsset' = [levelAsset EXCEPT ![id] =
           NewActor(c, @.level, IF HasGuidProperty(c) THEN StaticGuid ELSE InvalidGuid,
                    FALSE, classProps[c])]
    /\ actors' = levelAsset'
    /\ hookLog' = <<>>
    /\ lastOp' = NoOp
    /\ UNCHANGED <<classProps, loadable, saveData, pc, rl, shot>>
    /\ UNCHANGED globalObjects
    /\ UNCHANGED levelNameOp

\* A class of the save no longer exists in the game (no live actor has it).
ClassRemoved(c) ==
    /\ pc = "idle"
    /\ c \in loadable
    /\ \A id \in DOMAIN actors : actors[id].cls # c
    /\ \A id \in DOMAIN levelAsset : levelAsset[id].cls # c
    /\ loadable' = loadable \ {c}
    /\ UNCHANGED actors
    /\ EnvDone
    /\ UNCHANGED globalObjects
    /\ UNCHANGED levelNameOp

\* USpudGameState::LoadFromArchive of a save another build of the game wrote: the core
\* data of the actor's record carries that build's version tag.
LoadFromOtherBuild(id) ==
    /\ pc = "idle"
    /\ id \in DOMAIN shot
    /\ id \in DOMAIN actors
    /\ shot[id].wrote # "none"
    /\ RecordOf(saveData.LevelDataMap[actors[id].level], shot[id].wrote, shot[id].key).CoreData[1]
          = CoreDataVersion
    /\ saveData' = IF shot[id].wrote = "spawned"
                   THEN [saveData EXCEPT !.LevelDataMap[actors[id].level].SpawnedActors[shot[id].key].CoreData[1]
                                            = CoreDataVersion + 1]
                   ELSE [saveData EXCEPT !.LevelDataMap[actors[id].level].LevelActors[shot[id].key].CoreData[1]
                                            = CoreDataVersion + 1]
    /\ hookLog' = <<>>
    /\ lastOp' = NoOp
    /\ UNCHANGED <<actors, classProps, loadable, levelAsset, pc, rl, shot>>
    /\ UNCHANGED globalObjects
    /\ UNCHANGED levelNameOp

-----------------------------------------------------------------------------
(* The level lifecycle: one level, its placed actor, runtime actors *)

SimpleProps == <<Leaf("A")>>

Init ==
    /\ classProps = [c \in Classes |-> SimpleProps]
    /\ loadable = Classes
    /\ \E c \in {"Door"} :
          levelAsset = [id \in {1} |->
              NewActor(c, "Map", IF HasGuidProperty(c) THEN StaticGuid ELSE InvalidGuid,
                       FALSE, SimpleProps)]
    /\ actors = levelAsset
    /\ saveData = EmptySaveData
    /\ pc = "idle"
    /\ rl = IdleLocals
    /\ hookLog = <<>>
    /\ lastOp = NoOp
    /\ shot = EmptyMap
    /\ globalObjects = EmptyMap
    /\ levelNameOp = NoLevelNameOp

\* The calls and events every lifecycle has: snapshot and restore of the level,
\* gameplay on its actors, runtime actors of a class with a SpudGuid property.
Lifecycle ==
    \/ \E L \in LevelNames : UpdateFromLevel(L)
    \/ ResetState
    \/ \E L \in LevelNames : RestoreLevelBegin(L)
    \/ RestoreLevelRespawn
    \/ RestoreLevelRestore
    \/ RestoreLevelDestroy
    \/ \E L \in LevelNames : SpawnRuntime("Enemy", L)
    \/ \E id \in ActorIds, v \in {0, MaxVal} : Gameplay(id, v)
    \/ LoadMap

\* ... with runtime actors without a SpudGuid property and a placed actor whose class
\* is changed under its name.
Next ==
    \/ Lifecycle
    \/ \E L \in LevelNames : SpawnRuntime("Crate", L)
    \/ ReplaceClass(1, "Gate")

Spec == Init /\ [][Next]_vars

\* ... with level actors that are destroyed.
NextDestroyed ==
    \/ Lifecycle
    \/ \E id \in ActorIds : BeginDestroy(id)
    \/ \E id \in ActorIds : FinishDestroy(id)
    \/ \E id \in ActorIds : UpdateLevelActorDestroyed(id)

SpecDestroyed == Init /\ [][NextDestroyed]_vars

\* ... with a class of the save that no longer loads, next to one that does and to
\* level actors that are destroyed.
NextUnloadable ==
    \/ \E L \in LevelNames : UpdateFromLevel(L)
    \/ \E L \in LevelNames : RestoreLevelBegin(L)
    \/ RestoreLevelRespawn
    \/ RestoreLevelRestore
    \/ RestoreLevelDestroy
    \/ \E L \in LevelNames : SpawnRuntime("Enemy", L)
    \/ \E L \in LevelNames : SpawnTagged("Pickup", L)
    \/ \E id \in ActorIds : Gameplay(id, MaxVal)
    \/ LoadMap
    \/ ClassRemoved("Enemy")
    \/ \E id \in ActorIds : BeginDestroy(id)
    \/ \E id \in ActorIds : FinishDestroy(id)
    \/ \E id \in ActorIds : UpdateLevelActorDestroyed(id)

SpecUnloadable == Init /\ [][NextUnloadable]_vars

-----------------------------------------------------------------------------
(* One actor at a time: the UpdateFromActor and RestoreActor calls on an  *)
(* actor of each kind of routing.                                         *)

\* The kinds: a placed actor without a SpudGuid property, a placed actor with a
\* SpudGuid the designer typed, runtime actors with a blank SpudGuid that the respawn
\* policy approves (Enemy) and refuses (Hero, a character), a runtime actor
\* without a SpudGuid property, and a placed actor whose root is static.
ActorKinds ==
    {[slot |-> 1, cls |-> "Door", guid |-> InvalidGuid, runtime |-> FALSE],
     [slot |-> 1, cls |-> "Enemy", guid |-> StaticGuid, runtime |-> FALSE],
     [slot |-> 2, cls |-> "Enemy", guid |-> InvalidGuid, runtime |-> TRUE],
     [slot |-> 2, cls |-> "Hero", guid |-> InvalidGuid, runtime |-> TRUE],
     [slot |-> 2, cls |-> "Crate", guid |-> InvalidGuid, runtime |-> TRUE],
     [slot |-> 1, cls |-> "Wall", guid |-> InvalidGuid, runtime |-> FALSE]}

InitActor ==
    /\ classProps = [c \in Classes |-> SimpleProps]
    /\ loadable = Classes
    /\ \E k \in ActorKinds :
          /\ actors = [id \in {k.slot} |-> NewActor(k.cls, "Map", k.guid, k.runtime, SimpleProps)]
          /\ levelAsset = IF k.runtime THEN EmptyMap ELSE actors
    /\ saveData = EmptySaveData
    /\ pc = "idle"
    /\ rl = IdleLocals
    /\ hookLog = <<>>
    /\ lastOp = NoOp
    /\ shot = EmptyMap
    /\ globalObjects = EmptyMap
    /\ levelNameOp = NoLevelNameOp

NextActor ==
    \/ \E id \in ActorIds : UpdateFromActorCall(id)
    \/ \E id \in ActorIds : RestoreActorCall(id)
    \/ \E id \in ActorIds, v \in Values : Gameplay(id, v)
    \/ \E id \in ActorIds : SetSimulatePhysics(id)
    \/ \E id \in ActorIds : Reconstruct(id)

SpecActor == InitActor /\ [][NextActor]_vars

\* The same with save data that can come from a build with another core data format.
NextCore ==
    \/ NextActor
    \/ \E id \in ActorIds : LoadFromOtherBuild(id)

SpecCore == InitActor /\ [][NextCore]_vars

-----------------------------------------------------------------------------
(* The properties of one object across versions of its class *)

\* The versions of the class: two root properties, the same reordered, each of them
\* removed, and the second one moved into a custom struct.
Schemas ==
    {<<Leaf("A"), Leaf("B")>>,
     <<Leaf("B"), Leaf("A")>>,
     <<Leaf("A")>>,
     <<Leaf("B")>>,
     <<Leaf("A"), Struct("S"), Nested("S", "B")>>}

InitProps ==
    /\ classProps = [c \in Classes |-> IF c = "Door" THEN <<Leaf("A"), Leaf("B")>> ELSE SimpleProps]
    /\ loadable = Classes
    /\ levelAsset = [id \in {1} |-> NewActor("Door", "Map", InvalidGuid, FALSE, classProps["Door"])]
    /\ actors = levelAsset
    /\ saveData = EmptySaveData
    /\ pc = "idle"
    /\ rl = IdleLocals
    /\ hookLog = <<>>
    /\ lastOp = NoOp
    /\ shot = EmptyMap
    /\ globalObjects = EmptyMap
    /\ levelNameOp = NoLevelNameOp

NextProps ==
    \/ UpdateFromActorCall(1)
    \/ RestoreActorCall(1)
    \/ \E k \in {RootPrefix, "S"} \X {"A", "B"}, v \in Values : SetProperty(1, k, v)
    \/ \E decls \in Schemas : SchemaDrift("Door", decls)
    \/ ReplaceClass(1, "Gate")

SpecProps == InitProps /\ [][NextProps]_vars

-----------------------------------------------------------------------------
(* A global object next to two levels with one placed actor each, and runtime *)
(* actors in the first level.                                                 *)

GlobalClasses == {"Settings", "Stats"}

\* The versions of a global object's class: with and without its custom struct.
GlobalSchemas == {<<Leaf("A"), Struct("S"), Nested("S", "B")>>, <<Leaf("A")>>}

InitGlobal ==
    /\ classProps = [c \in Classes |->
           IF c \in GlobalClasses THEN <<Leaf("A"), Struct("S"), Nested("S", "B")>> ELSE SimpleProps]
    /\ loadable = Classes
    /\ levelAsset = [id \in {1, 2} |->
           IF id = 1 THEN NewActor("Door", "Map", InvalidGuid, FALSE, SimpleProps)
           ELSE NewActor("Gate", "Cave", InvalidGuid, FALSE, SimpleProps)]
    /\ actors = levelAsset
    /\ saveData = EmptySaveData
    /\ pc = "idle"
    /\ rl = IdleLocals
    /\ hookLog = <<>>
    /\ lastOp = NoOp
    /\ shot = EmptyMap
    /\ levelNameOp = NoLevelNameOp
    /\ \E c \in GlobalClasses :
          globalObjects = [g \in GlobalIds |-> NewGlobalObject(c, classProps[c])]

NextGlobal ==
    \/ \E g \in GlobalIds : UpdateFromGlobalObject(g)
    \/ \E g \in GlobalIds : RestoreGlobalObject(g)
    \/ \E g \in GlobalIds, k \in {RootPrefix, "S"} \X {"A", "B"} : SetGlobalProperty(g, k, MaxVal)
    \/ \E c \in GlobalClasses, decls \in GlobalSchemas : SchemaDrift(c, decls)
    \/ \E id \in ActorIds : UpdateFromActorCall(id)
    \/ \E id \in ActorIds : RestoreActorCall(id)
    \/ \E id \in ActorIds : SetProperty(id, <<RootPrefix, "A">>, MaxVal)
    \/ ResetState

SpecGlobal == InitGlobal /\ [][NextGlobal]_vars

-----------------------------------------------------------------------------
(* The respawn policy: one runtime actor of each kind and respawn mode, with *)
(* a SpudGuid that is set or still blank.                                    *)

PolicyClasses == {"Enemy", "Hero", "Drone", "Arena", "Score", "Brain", "Boss", "Ghost"}

InitPolicy ==
    /\ classProps = [c \in Classes |-> SimpleProps]
    /\ loadable = Classes
    /\ \E c \in PolicyClasses, guid \in {InvalidGuid, StaticGuid} :
          actors = [id \in {2} |-> NewActor(c, "Map", guid, TRUE, SimpleProps)]
    /\ levelAsset = EmptyMap
    /\ saveData = EmptySaveData
    /\ pc = "idle"
    /\ rl = IdleLocals
    /\ hookLog = <<>>
    /\ lastOp = NoOp
    /\ shot = EmptyMap
    /\ globalObjects = EmptyMap
    /\ levelNameOp = NoLevelNameOp

NextPolicy ==
    \/ \E id \in ActorIds : UpdateFromActorCall(id)
    \/ \E id \in ActorIds : RestoreActorCall(id)
    \/ \E id \in ActorIds, v \in Values : Gameplay(id, v)

SpecPolicy == InitPolicy /\ [][NextPolicy]_vars

-----------------------------------------------------------------------------
(* Every restore call next to the snapshots that fill the store: one level   *)
(* with a placed actor and runtime actors, and a global object.              *)

InitLookup ==
    /\ classProps = [c \in Classes |->
           IF c \in GlobalClasses THEN <<Leaf("A"), Struct("S"), Nested("S", "B")>> ELSE SimpleProps]
    /\ loadable = Classes
    /\ levelAsset = [id \in {1} |-> NewActor("Door", "Map", InvalidGuid, FALSE, SimpleProps)]
    /\ actors = levelAsset
    /\ saveData = EmptySaveData
    /\ pc = "idle"
    /\ rl = IdleLocals
    /\ hookLog = <<>>
    /\ lastOp = NoOp
    /\ shot = EmptyMap
    /\ globalObjects = [g \in GlobalIds |-> NewGlobalObject("Settings", classProps["Settings"])]
    /\ levelNameOp = NoLevelNameOp

NextLookup ==
    \/ \E g \in GlobalIds : UpdateFromGlobalObject(g)
    \/ \E g \in GlobalIds : RestoreGlobalObject(g)
    \/ \E decls \in GlobalSchemas : SchemaDrift("Settings", decls)
    \/ \E L \in LevelNames : UpdateFromLevel(L)
    \/ \E L \in LevelNames : RestoreLevelBegin(L)
    \/ RestoreLevelRespawn
    \/ RestoreLevelRestore
    \/ RestoreLevelDestroy
    \/ \E id \in ActorIds : RestoreActorCall(id)
    \/ \E L \in LevelNames : SpawnRuntime("Enemy", L)
    \/ \E L \in LevelNames : SpawnRuntime("Crate", L)
    \/ LoadMap
    \/ ResetState

SpecLookup == InitLookup /\ [][NextLookup]_vars

-----------------------------------------------------------------------------
(* Two loaded levels of one world, each with its placed actor, runtime actors *)
(* in either of them, and calls scoped to one level.                          *)

\* World->GetLevels: the persistent level and a streaming level.
WorldLevels == {"Map", "Cave"}

InitLevels ==
    /\ classProps = [c \in Classes |-> SimpleProps]
    /\ loadable = Classes
    /\ levelAsset = [id \in {1, 2} |->
           IF id = 1 THEN NewActor("Door", "Map", InvalidGuid, FALSE, SimpleProps)
           ELSE NewActor("Gate", "Cave", InvalidGuid, FALSE, SimpleProps)]
    /\ actors = levelAsset
    /\ saveData = EmptySaveData
    /\ pc = "idle"
    /\ rl = IdleLocals
    /\ hookLog = <<>>
    /\ lastOp = NoOp
    /\ shot = EmptyMap
    /\ globalObjects = EmptyMap
    /\ levelNameOp = NoLevelNameOp

NextLevels ==
    \/ \E L \in WorldLevels : UpdateFromLevel(L)
    \/ \E L \in WorldLevels : RestoreLevelBegin(L)
    \/ RestoreLevelRespawn
    \/ RestoreLevelRestore
    \/ RestoreLevelDestroy
    \/ \E L \in WorldLevels : SpawnRuntime("Enemy", L)
    \/ \E id \in DOMAIN levelAsset : SetProperty(id, <<RootPrefix, "A">>, MaxVal)
    \/ BeginDestroy(2)
    \/ UpdateLevelActorDestroyed(2)
    \/ LoadMap

SpecLevels == InitLevels /\ [][NextLevels]_vars

-----------------------------------------------------------------------------
(* The fast path: one placed actor whose class has root properties and a  *)
(* custom struct, with and without persistent properties inside it.       *)

\* The versions of the class: two root properties; a struct between its nested property
\* and a root property, in both orders; a struct without persistent properties of
\* its own as the last property, and as the only one.
FastSchemas ==
    {<<Leaf("A"), Leaf("B")>>,
     <<Leaf("A"), Struct("S"), Nested("S", "B")>>,
     <<Struct("S"), Nested("S", "B"), Leaf("A")>>,
     <<Leaf("A"), Struct("S")>>,
     <<Struct("S")>>}

InitFast ==
    /\ \E decls \in FastSchemas :
          classProps = [c \in Classes |-> IF c = "Door" THEN decls ELSE SimpleProps]
    /\ loadable = Classes
    /\ levelAsset = [id \in {1} |-> NewActor("Door", "Map", InvalidGuid, FALSE, classProps["Door"])]
    /\ actors = levelAsset
    /\ saveData = EmptySaveData
    /\ pc = "idle"
    /\ rl = IdleLocals
    /\ hookLog = <<>>
    /\ lastOp = NoOp
    /\ shot = EmptyMap
    /\ globalObjects = EmptyMap
    /\ levelNameOp = NoLevelNameOp

NextFast ==
    \/ UpdateFromActorCall(1)
    \/ RestoreActorCall(1)
    \/ \E k \in {RootPrefix, "S"} \X {"A", "B"}, v \in Values : SetProperty(1, k, v)
    \/ \E decls \in FastSchemas : SchemaDrift("Door", decls)
    \/ ResetState

SpecFast == InitFast /\ [][NextFast]_vars

-----------------------------------------------------------------------------
(* The level name of an object: GetLevelNameForObject on objects of packages *)
(* with and without the play-in-editor prefix.                               *)

\* The numbers of play-in-editor instances, as their decimal digits.
RECURSIVE DigitStrings(_)
DigitStrings(n) ==
    IF n = 0 THEN {<<>>}
    ELSE {<<d>> \o t : d \in Digits, t \in DigitStrings(n - 1)}

PieNumbers == UNION {DigitStrings(n) : n \in 1..MaxPieDigits}

\* The map names of the game and the folders they are in.
MapNames == {<<"M", "a", "p">>, <<"C", "a", "v", "e">>, <<"M">>}

MapFolders == {<<"/">>, <<"/", "G", "/">>, <<"/", "G", "/", "M", "/">>}

\* The package name the editor gives the copy of a map it plays as instance N.
PiePackage(Folder, N, Map) == Folder \o PiePrefix \o N \o <<"_">> \o Map

\* The outermost package names: a map, or a play-in-editor copy of it.
PackageNames ==
    {Folder \o Map : Folder \in MapFolders, Map \in MapNames}
    \cup {PiePackage(Folder, N, Map) : Folder \in MapFolders, N \in PieNumbers, Map \in MapNames}

InitName ==
    /\ classProps = [c \in Classes |-> SimpleProps]
    /\ loadable = Classes
    /\ levelAsset = [id \in {1} |-> NewActor("Door", "Map", InvalidGuid, FALSE, SimpleProps)]
    /\ actors = levelAsset
    /\ saveData = EmptySaveData
    /\ pc = "idle"
    /\ rl = IdleLocals
    /\ hookLog = <<>>
    /\ lastOp = NoOp
    /\ shot = EmptyMap
    /\ globalObjects = EmptyMap
    /\ \E OuterMost \in PackageNames \cup {NoPackage} :
          levelNameOp = [NoLevelNameOp EXCEPT !.OuterMost = OuterMost]

\* USpudGameState::GetLevelNameForObject(Obj)
GetLevelNameForObjectCall ==
    /\ ~levelNameOp.called
    /\ levelNameOp' = [levelNameOp EXCEPT !.called = TRUE,
                                          !.LevelName = GetLevelNameForObject(levelNameOp.OuterMost)]
    /\ UNCHANGED <<actors, classProps, loadable, levelAsset, saveData, pc, rl, hookLog, lastOp,
                   shot, globalObjects>>

NextName == GetLevelNameForObjectCall

SpecName == InitName /\ [][NextName]_vars

-----------------------------------------------------------------------------
(* Properties of the level lifecycle (checked under Spec) *)

SpawnedOf(sd, L) == IF HasLevelData(sd, L) THEN DOMAIN sd.LevelDataMap[L].SpawnedActors ELSE {}

LevelActorsOf(sd, L) == IF HasLevelData(sd, L) THEN DOMAIN sd.LevelDataMap[L].LevelActors ELSE {}

\* The actors a snapshot of their level writes: persistent and not being destroyed.
Snapshotted(a) == IsPersistentClass(a.cls) /\ ~HasSkipFlags(a)

\* The GUID of the spawned record under key k, in the level RestoreLevel works on.
StoredGuid(k) == saveData.LevelDataMap[rl.Level].SpawnedActors[k].Guid

\* C1: while RestoreLevel runs its in-place restore loop, the respawn loop is over:
\* no stored spawned record is left to respawn, and every stored record whose class
\* loads has its GUID in RuntimeObjectsByGuid, mapped to a live actor carrying it.
C1_RespawnBeforeRestore ==
    pc = "restore" =>
        /\ rl.todoSpawn = {}
        /\ \A k \in Respawnable(saveData.LevelDataMap[rl.Level]) :
              /\ StoredGuid(k) \in DOMAIN rl.RuntimeObjectsByGuid
              /\ rl.RuntimeObjectsByGuid[StoredGuid(k)] \in DOMAIN actors
              /\ GetGuidProperty(actors[rl.RuntimeObjectsByGuid[StoredGuid(k)]]) = StoredGuid(k)

\* C1's case: the restore loop has a level-resident actor still to restore while a
\* respawned actor is in the table.
C1_Witness ==
    /\ pc = "restore"
    /\ \E id \in rl.todoActors : ~IsRuntimeActor(actors[id]) /\ Snapshotted(actors[id])
    /\ \E k \in Respawnable(saveData.LevelDataMap[rl.Level]) :
          /\ StoredGuid(k) \in DOMAIN rl.RuntimeObjectsByGuid
          /\ IsRuntimeActor(actors[rl.RuntimeObjectsByGuid[StoredGuid(k)]])

\* C4 as the specification states it: an actor without a valid GUID is never given a
\* spawned record by a step, and a snapshot of its level stores it in LevelActors.
C4_NoTokenNeverSpawned ==
    [][\A id \in DOMAIN actors :
          (~GuidIsValid(GetGuidProperty(actors[id])) /\ id \in DOMAIN actors') =>
             /\ ~(/\ GuidIsValid(GetGuidProperty(actors'[id]))
                  /\ GuidKey(GetGuidProperty(actors'[id])) \in
                        SpawnedOf(saveData', actors[id].level) \ SpawnedOf(saveData, actors[id].level))
             /\ ((\E L \in LevelNames : UpdateFromLevel(L)) /\ Snapshotted(actors[id]))
                   => GetLevelActorName(id) \in LevelActorsOf(saveData', actors[id].level)]_vars

\* C4 as the code has it: every key of SpawnedActors and of RuntimeObjectsByGuid is a
\* valid GUID, and a GUID becomes valid only by a snapshot that routes the actor as
\* spawned; a snapshot gives an actor without a valid GUID a level-resident record
\* when it is not routed as spawned, a fresh GUID and a spawned record under it when
\* it is and its class has a SpudGuid property, and no record at all otherwise.
C4_TokenGating ==
    [][/\ \A L \in LevelNames : \A k \in SpawnedOf(saveData', L) :
             /\ GuidIsValid(saveData'.LevelDataMap[L].SpawnedActors[k].Guid)
             /\ GuidKey(saveData'.LevelDataMap[L].SpawnedActors[k].Guid) = k
       /\ \A g \in DOMAIN rl'.RuntimeObjectsByGuid : GuidIsValid(g)
       /\ \A id \in DOMAIN actors :
             (~GuidIsValid(GetGuidProperty(actors[id])) /\ id \in DOMAIN actors') =>
                /\ GuidIsValid(GetGuidProperty(actors'[id])) =>
                      /\ ShouldActorBeRespawnedOnRestore(actors[id])
                      /\ HasGuidProperty(actors[id].cls)
                      /\ GetGuidProperty(actors'[id]) \notin UsedGuids(actors, saveData)
                      /\ GuidKey(GetGuidProperty(actors'[id])) \in SpawnedOf(saveData', actors[id].level)
                /\ ((\E L \in LevelNames : UpdateFromLevel(L)) /\ Snapshotted(actors[id])) =>
                      IF ~ShouldActorBeRespawnedOnRestore(actors[id])
                      THEN /\ GetLevelActorName(id) \in LevelActorsOf(saveData', actors[id].level)
                           /\ actors'[id] = actors[id]
                      ELSE /\ GetLevelActorName(id) \notin LevelActorsOf(saveData', actors[id].level)
                           /\ IF HasGuidProperty(actors[id].cls)
                              THEN /\ GuidIsValid(GetGuidProperty(actors'[id]))
                                   /\ GuidKey(GetGuidProperty(actors'[id])) \in
                                         SpawnedOf(saveData', actors[id].level)
                              ELSE actors'[id] = actors[id]]_vars

\* C4's case: a runtime actor that a snapshot gave a GUID and a spawned record, beside
\* a runtime actor without a SpudGuid property that has no record of any kind and a
\* placed actor stored by name.
C4_Witness ==
    /\ \E id \in DOMAIN actors :
          /\ IsRuntimeActor(actors[id])
          /\ GetGuidProperty(actors[id]) \in Guids
          /\ GuidKey(GetGuidProperty(actors[id])) \in SpawnedOf(saveData, actors[id].level)
    /\ \E id \in DOMAIN actors :
          /\ IsRuntimeActor(actors[id])
          /\ ~HasGuidProperty(actors[id].cls)
          /\ GetLevelActorName(id) \notin LevelActorsOf(saveData, actors[id].level)
    /\ \E id \in DOMAIN actors :
          /\ ~IsRuntimeActor(actors[id])
          /\ GetLevelActorName(id) \in LevelActorsOf(saveData, actors[id].level)

\* The restore loop's next RestoreActor call finds a record and no class definition.
RestoresWithoutClassDef(id) ==
    /\ pc = "restore"
    /\ rl.todoActors # {}
    /\ id = MinOf(rl.todoActors)
    /\ IsPersistentClass(actors[id].cls)
    /\ RestoreActor(id, actors[id], saveData.LevelDataMap[rl.Level], classProps[actors[id].cls]).found
    /\ ~HasClassDef(saveData.LevelDataMap[rl.Level].Metadata, GetClassName(actors[id]))

\* The record RestoreActor finds for the actor.
FoundRecord(id) ==
    RecordOf(saveData.LevelDataMap[rl.Level],
             RestoreActor(id, actors[id], saveData.LevelDataMap[rl.Level], classProps[actors[id].cls]).where,
             RestoreActor(id, actors[id], saveData.LevelDataMap[rl.Level], classProps[actors[id].cls]).key)

\* C5 as the specification states it: an actor whose record is found while its class
\* has no stored class definition is left as it was by the restore.
C5_SkippedEntirely ==
    [][\A id \in DOMAIN actors :
          RestoresWithoutClassDef(id) => actors'[id] = actors[id]]_vars

\* C5 as the code has it: the properties of such an actor are left as they were, its
\* hidden flag and transform are set from the record, its load hooks run, no other
\* actor changes and the loop goes on with the actors that remain.
C5_OnlyPropertiesSkipped ==
    [][\A id \in DOMAIN actors :
          RestoresWithoutClassDef(id) =>
             /\ actors'[id].props = actors[id].props
             /\ actors'[id].core.Hidden = FoundRecord(id).CoreData[2]
             /\ actors'[id].core.Transform = FoundRecord(id).CoreData[3]
             /\ hookLog' = hookLog \o PreRestoreObject(id, actors[id])
                                    \o <<<<id, "RestoreCoreActorData">>, <<id, "RestoreObjectProperties">>>>
                                    \o PostRestoreObject(id, actors[id], FoundRecord(id).CustomData)
             /\ \A other \in DOMAIN actors \ {id} : actors'[other] = actors[other]
             /\ rl'.todoActors = rl.todoActors \ {id}
             /\ pc' = "restore"]_vars

\* C5's case: the placed actor was restored from a record of its name although its
\* class has no definition in the registry: its transform is the stored one, its
\* property is not.
C5_Witness ==
    /\ pc = "restore"
    /\ 1 \in DOMAIN actors
    /\ 1 \notin rl.todoActors
    /\ 1 \in LevelActorsOf(saveData, rl.Level)
    /\ ~HasClassDef(saveData.LevelDataMap[rl.Level].Metadata, GetClassName(actors[1]))
    /\ saveData.LevelDataMap[rl.Level].LevelActors[1].CoreData[3] = MaxVal
    /\ actors[1].core.Transform = MaxVal
    /\ saveData.LevelDataMap[rl.Level].LevelActors[1].Properties.Data = <<MaxVal>>
    /\ actors[1].props[<<RootPrefix, "A">>] = 0

\* C6: at most one live actor carries the GUID of a stored spawned record.
C6_OneLivePerToken ==
    \A i, j \in DOMAIN actors :
        (/\ GuidIsValid(GetGuidProperty(actors[i]))
         /\ GetGuidProperty(actors[i]) = GetGuidProperty(actors[j])
         /\ GuidKey(GetGuidProperty(actors[i])) \in SpawnedOf(saveData, actors[i].level))
        => i = j

\* C10: a RestoreLevel call on a level without stored level data changes no actor,
\* spawns and destroys none, runs no hook, creates no level data and returns.
C10_MissingLevelDataNoChange ==
    [][\A L \in LevelNames :
          (RestoreLevelBegin(L) /\ ~HasLevelData(saveData, L)) =>
             /\ actors' = actors
             /\ saveData' = saveData
             /\ hookLog' = <<>>
             /\ pc' = "idle"
             /\ rl' = rl]_vars

\* C10's case: RestoreLevel has returned from a scene with a runtime actor and a posed
\* placed actor while the save data holds nothing for the level.
C10_Witness ==
    /\ pc = "idle"
    /\ lastOp.op = "RestoreLevel"
    /\ ~lastOp.found
    /\ ~HasLevelData(saveData, "Map")
    /\ \E id \in DOMAIN actors : IsRuntimeActor(actors[id])
    /\ \E id \in DOMAIN actors : ~IsRuntimeActor(actors[id]) /\ actors[id].core.Transform = MaxVal

-----------------------------------------------------------------------------
(* Properties of one actor's snapshot and restore (checked under SpecActor) *)

\* RestoreActor is called on a freshly constructed actor E' of the class and identity
\* of the actor E whose snapshot wrote a record.
RestoresOntoFresh(id) ==
    /\ RestoreActorCall(id)
    /\ id \in DOMAIN shot
    /\ shot[id].wrote # "none"
    /\ actors[id].cls = shot[id].actor.cls
    /\ actors[id].guid = shot[id].actor.guid
    /\ IsFresh(actors[id], classProps[actors[id].cls])

\* C3 as the specification states it: after snapshot(E) and restore onto a fresh E',
\* E' equals E on every persisted property and every core field.
C3_RoundTrip ==
    [][\A id \in DOMAIN actors :
          RestoresOntoFresh(id) =>
             /\ lastOp'.found
             /\ actors'[id].props = shot[id].actor.props
             /\ actors'[id].core = shot[id].actor.core]_vars

\* C3, amended: after snapshot(E) and restore onto a fresh E', E' equals E on every
\* persisted property, on the hidden flag and on the transform; the two velocities of
\* E' equal those of E when the root of E simulated physics at the snapshot and the
\* root of E' simulates physics at the restore, and are the zero of a fresh actor
\* otherwise.
C3_RoundTripPhysics ==
    [][\A id \in DOMAIN actors :
          RestoresOntoFresh(id) =>
             /\ lastOp'.found
             /\ actors'[id].props = shot[id].actor.props
             /\ actors'[id].core.Hidden = shot[id].actor.core.Hidden
             /\ actors'[id].core.Transform = shot[id].actor.core.Transform
             /\ actors'[id].core.Velocity =
                   IF PhysicsRoot(shot[id].actor) /\ PhysicsRoot(actors[id])
                   THEN shot[id].actor.core.Velocity ELSE DefaultCore.Velocity
             /\ actors'[id].core.AngularVelocity =
                   IF PhysicsRoot(shot[id].actor) /\ PhysicsRoot(actors[id])
                   THEN shot[id].actor.core.AngularVelocity ELSE DefaultCore.AngularVelocity]_vars

\* C3's case: a restore onto a fresh actor has brought back a moved, hidden actor
\* with its property and, the root simulating physics, its velocities.
C3_Witness ==
    /\ lastOp.op = "RestoreActor"
    /\ lastOp.found
    /\ lastOp.fresh
    /\ lastOp.id \in DOMAIN shot
    /\ lastOp.id \in DOMAIN actors
    /\ actors[lastOp.id].core = shot[lastOp.id].actor.core
    /\ actors[lastOp.id].props = shot[lastOp.id].actor.props
    /\ actors[lastOp.id].core.Velocity = MaxVal
    /\ actors[lastOp.id].core.Hidden
    /\ \E k \in DOMAIN actors[lastOp.id].props : actors[lastOp.id].props[k] = MaxVal

\* What RestoreActor does with the record the last snapshot of the actor wrote: it
\* looks in the container and under the key that UpdateFromActor used, and finds it.
C9_RestoreFindsSnapshot ==
    \A id \in DOMAIN actors :
        (/\ RestoreActorCall(id)
         /\ id \in DOMAIN shot
         /\ shot[id].wrote # "none"
         /\ actors[id].guid = shot[id].actor.guid)
        => /\ lastOp'.where = shot[id].wrote
           /\ lastOp'.key = shot[id].key
           /\ lastOp'.found

\* C9 as the specification states it: a snapshot treats the actor as spawned iff it
\* has a valid GUID and the respawn policy approves its kind, otherwise as
\* level-resident, and RestoreActor finds the record in the same container under the
\* same key.
C9_RoutingByToken ==
    [][/\ \A id \in DOMAIN actors :
             UpdateFromActorCall(id) =>
                shot'[id].wrote =
                   IF GuidIsValid(GetGuidProperty(actors[id])) /\ ShouldRespawnRuntimeActor(actors[id])
                   THEN "spawned" ELSE "level"
       /\ C9_RestoreFindsSnapshot]_vars

\* C9, amended: a snapshot treats the actor as spawned iff it is a runtime actor and
\* the respawn policy approves its kind, whatever its GUID, and otherwise as
\* level-resident under its name; a spawned actor's record is keyed by the GUID the
\* actor carries after the snapshot (generated when it was blank), and an actor
\* routed as spawned whose class has no SpudGuid property gets no record.
\* RestoreActor looks in the same container under the same key and finds the record.
C9_RoutingByRuntime ==
    [][/\ \A id \in DOMAIN actors :
             UpdateFromActorCall(id) =>
                /\ shot'[id].wrote =
                      IF ~ShouldActorBeRespawnedOnRestore(actors[id]) THEN "level"
                      ELSE IF HasGuidProperty(actors[id].cls) THEN "spawned" ELSE "none"
                /\ shot'[id].wrote = "level" =>
                      /\ shot'[id].key = GetLevelActorName(id)
                      /\ shot'[id].key \in LevelActorsOf(saveData', actors[id].level)
                /\ shot'[id].wrote = "spawned" =>
                      /\ GuidIsValid(GetGuidProperty(actors'[id]))
                      /\ shot'[id].key = GuidKey(GetGuidProperty(actors'[id]))
                      /\ shot'[id].key \in SpawnedOf(saveData', actors[id].level)
                /\ shot'[id].wrote = "none" =>
                      /\ SpawnedOf(saveData', actors[id].level) = SpawnedOf(saveData, actors[id].level)
                      /\ LevelActorsOf(saveData', actors[id].level) = LevelActorsOf(saveData, actors[id].level)
       /\ C9_RestoreFindsSnapshot]_vars

\* C9's case: RestoreActor has found the spawned record of a runtime actor under the
\* GUID its snapshot generated.
C9_Witness ==
    /\ lastOp.op = "RestoreActor"
    /\ lastOp.found
    /\ lastOp.where = "spawned"
    /\ lastOp.id \in DOMAIN shot
    /\ shot[lastOp.id].wrote = "spawned"
    /\ lastOp.key = shot[lastOp.id].key
    /\ \E id \in DOMAIN actors : IsRuntimeActor(actors[id]) /\ GuidKey(GetGuidProperty(actors[id])) = lastOp.key

-----------------------------------------------------------------------------
(* Properties of the property restore across class versions (checked under *)
(* SpecProps)                                                              *)

\* The class definition stored for the class of the actor.
StoredClassDef(id) ==
    saveData.LevelDataMap[actors[id].level].Metadata.ClassDefs[GetClassName(actors[id])]

\* RestoreActor restores the record of the last snapshot of the actor by the slow path.
RestoresBySlowPath(id) ==
    /\ RestoreActorCall(id)
    /\ lastOp'.found
    /\ lastOp'.path = "slow"
    /\ id \in DOMAIN shot
    /\ shot[id].wrote # "none"
    /\ shot[id].actor.cls = actors[id].cls

\* The live leaf property is in the stored class definition and the record holds a
\* value of it.
StoredAndLive(id, k) ==
    /\ k \in DOMAIN actors[id].props
    /\ k \in DOMAIN shot[id].actor.props
    /\ FindPropertyIndex(StoredClassDef(id).Properties, k[1], k[2]) # 0

\* The live class has the properties of the snapshot, no more and no fewer: the slow
\* path is taken because their order changed.
OnlyReordered(id) == DOMAIN actors[id].props = DOMAIN shot[id].actor.props

\* C2: on the slow path taken for reordered properties, every live leaf property that
\* is in the stored class definition is restored with its own stored value, whatever
\* position the live order visits it at.
C2_SlowPathOwnValue ==
    [][\A id \in DOMAIN actors :
          (RestoresBySlowPath(id) /\ OnlyReordered(id)) =>
             \A k \in DOMAIN actors[id].props :
                StoredAndLive(id, k) => actors'[id].props[k] = shot[id].actor.props[k]]_vars

\* The leaves of a declaration list that are among the keys.
LeavesAmong(decls, keys) ==
    LET Among(p) == ~p.struct /\ <<p.prefix, p.name>> \in keys
    IN SelectSeq(decls, Among)

\* The class changed between the snapshot and now by added and removed properties
\* only: the properties on both sides are in the same order.
OnlyAddedOrRemoved(id) ==
    LeavesAmong(classProps[actors[id].cls], DOMAIN shot[id].actor.props)
       = LeavesAmong(shot[id].decls, DOMAIN actors[id].props)

\* C7: on the slow path, with properties only added or removed since the snapshot, a
\* live property that is not in the stored class definition keeps its live value and
\* every property present on both sides receives its own stored value.
C7_AddedRemovedLeaveOthers ==
    [][\A id \in DOMAIN actors :
          (RestoresBySlowPath(id) /\ OnlyAddedOrRemoved(id)) =>
             \A k \in DOMAIN actors[id].props :
                /\ FindPropertyIndex(StoredClassDef(id).Properties, k[1], k[2]) = 0
                      => actors'[id].props[k] = actors[id].props[k]
                /\ StoredAndLive(id, k) => actors'[id].props[k] = shot[id].actor.props[k]]_vars

\* The stored property sequence is the live class's leaf sequence: same length, and
\* the same name under the same struct prefix at every position.
SameSequence(Props, decls) ==
    LET IsLeaf(p) == ~p.struct
        live == SelectSeq(decls, IsLeaf)
    IN /\ Len(Props) = Len(live)
       /\ \A i \in 1..Len(live) :
             Props[i].PropertyID = live[i].name /\ Props[i].PrefixID = live[i].prefix

-----------------------------------------------------------------------------
(* Properties of a restore from core data of another version (checked     *)
(* under SpecCore)                                                         *)

\* The record the RestoreActor call of this step found.
RecordRestored(id) ==
    RecordOf(saveData.LevelDataMap[actors[id].level], lastOp'.where, lastOp'.key)

\* C11: when the core data of the record found carries a version tag other than 1,
\* RestoreActor leaves the hidden flag, the transform and the velocities as they
\* were, restores the properties from the record and runs the load hooks of an actor
\* with the callback interface around the two restores.
C11_OtherCoreVersion ==
    [][\A id \in DOMAIN actors :
          (/\ RestoreActorCall(id)
           /\ lastOp'.found
           /\ id \in DOMAIN shot
           /\ RecordRestored(id).CoreData[1] # 1) =>
             /\ actors'[id].core = actors[id].core
             /\ actors'[id].props = shot[id].actor.props
             /\ hookLog' =
                   (IF ImplementsCallback(actors[id].cls) THEN <<<<id, "PreLoad">>>> ELSE <<>>)
                   \o <<<<id, "RestoreCoreActorData">>, <<id, "RestoreObjectProperties">>>>
                   \o (IF ImplementsCallback(actors[id].cls)
                       THEN <<<<id, "FinaliseLoad", RecordRestored(id).CustomData>>, <<id, "PostLoad">>>>
                       ELSE <<>>)]_vars

\* C11's case: an actor with the callback interface was restored from a record with
\* another version tag: its property is the stored one, its transform is not, and
\* its load hooks have run.
C11_Witness ==
    /\ lastOp.op = "RestoreActor"
    /\ lastOp.found
    /\ lastOp.id \in DOMAIN actors
    /\ lastOp.id \in DOMAIN shot
    /\ ImplementsCallback(actors[lastOp.id].cls)
    /\ LET Record == RecordOf(saveData.LevelDataMap[actors[lastOp.id].level], lastOp.where, lastOp.key)
       IN /\ Record.CoreData[1] # 1
          /\ Record.CoreData[3] # actors[lastOp.id].core.Transform
          /\ Record.Properties.Data = <<MaxVal>>
    /\ actors[lastOp.id].props[<<RootPrefix, "A">>] = MaxVal
    /\ Len(hookLog) = 5

-----------------------------------------------------------------------------
(* Properties of a level restore whose save names a class that does not    *)
(* load (checked under SpecUnloadable)                                     *)

\* The stored spawned records of the level being restored whose class does not load.
Unresolved ==
    DOMAIN saveData.LevelDataMap[rl.Level].SpawnedActors
       \ Respawnable(saveData.LevelDataMap[rl.Level])

\* The live actors of the level being restored that RestoreActor finds a record for.
LiveWithRecord ==
    {id \in ActorsOfLevel(actors, rl.Level) :
        /\ IsPersistentClass(actors[id].cls)
        /\ RestoreActor(id, actors[id], saveData.LevelDataMap[rl.Level], classProps[actors[id].cls]).found}

\* C12: the iteration of the respawn loop on a record whose class does not load
\* spawns nothing, adds nothing to RuntimeObjectsByGuid and goes on with the records
\* that remain; and a RestoreLevel with such a record still ends its respawn loop
\* with a live actor in the table for every record whose class loads, its restore
\* loop with every live actor that has a record restored, and its destroy loop with
\* no live actor named in DestroyedActors.
C12_UnresolvedClassIsLocal ==
    [][/\ pc = "respawn" =>
            \A k \in (rl.todoSpawn \ rl'.todoSpawn) \cap Unresolved :
               /\ actors' = actors
               /\ rl'.RuntimeObjectsByGuid = rl.RuntimeObjectsByGuid
               /\ rl'.todoSpawn = rl.todoSpawn \ {k}
               /\ pc' = "respawn"
       /\ (pc = "respawn" /\ pc' = "restore" /\ Unresolved # {}) =>
            \A k \in Respawnable(saveData.LevelDataMap[rl.Level]) :
               /\ StoredGuid(k) \in DOMAIN rl.RuntimeObjectsByGuid
               /\ rl.RuntimeObjectsByGuid[StoredGuid(k)] \in DOMAIN actors
               /\ GetGuidProperty(actors[rl.RuntimeObjectsByGuid[StoredGuid(k)]]) = StoredGuid(k)
       /\ (pc = "restore" /\ pc' = "destroy" /\ Unresolved # {}) =>
            \A id \in LiveWithRecord :
               \E i \in 1..Len(hookLog) : hookLog[i] = <<id, "RestoreObjectProperties">>
       /\ (pc = "destroy" /\ pc' = "idle" /\ Unresolved # {}) =>
            \A i \in 1..Len(saveData.LevelDataMap[rl.Level].DestroyedActors) :
               \A id \in ActorsOfLevel(actors, rl.Level) :
                  GetLevelActorName(id) # saveData.LevelDataMap[rl.Level].DestroyedActors[i]]_vars

\* C12's case: a RestoreLevel has returned; the save holds a record whose class does
\* not load and no actor of that class is live, the actor of the other record was
\* respawned, and the placed actor was restored and then removed as destroyed.
C12_Witness ==
    /\ pc = "idle"
    /\ lastOp.op = "RestoreLevel"
    /\ lastOp.found
    /\ \E k \in SpawnedOf(saveData, "Map") :
          /\ saveData.LevelDataMap["Map"].SpawnedActors[k].ClassID \notin loadable
          /\ \A id \in DOMAIN actors :
                GetGuidProperty(actors[id]) # saveData.LevelDataMap["Map"].SpawnedActors[k].Guid
    /\ \E k \in SpawnedOf(saveData, "Map") :
          /\ saveData.LevelDataMap["Map"].SpawnedActors[k].ClassID \in loadable
          /\ \E id \in DOMAIN actors :
                GetGuidProperty(actors[id]) = saveData.LevelDataMap["Map"].SpawnedActors[k].Guid
    /\ 1 \notin DOMAIN actors
    /\ saveData.LevelDataMap["Map"].DestroyedActors # <<>>
    /\ \E i \in 1..Len(hookLog) : hookLog[i] = <<1, "RestoreObjectProperties">>

-----------------------------------------------------------------------------
(* Properties of the destroyed level actors (checked under SpecDestroyed)  *)

\* The names recorded as destroyed for the level being restored.
DestroyedNames == saveData.LevelDataMap[rl.Level].DestroyedActors

\* The live actor of the level being restored that bears the name, if any.
LiveNamed(Name) == {id \in ActorsOfLevel(actors, rl.Level) : GetLevelActorName(id) = Name}

\* C13: RestoreLevel enters its destroy loop from its restore loop, with every live
\* actor that has a record restored; each iteration removes the live actor that
\* bears the recorded name and no other; and when the loop returns no live actor of
\* the level bears a name recorded in DestroyedActors.
C13_DestroyedAreRemoved ==
    [][/\ (pc # "destroy" /\ pc' = "destroy") =>
            /\ pc = "restore"
            /\ \A id \in LiveWithRecord :
                  \E i \in 1..Len(hookLog) : hookLog[i] = <<id, "RestoreCoreActorData">>
       /\ (pc = "destroy" /\ pc' = "destroy") =>
            /\ DOMAIN actors' = DOMAIN actors \ LiveNamed(DestroyedNames[rl.nextDestroyed])
            /\ \A id \in DOMAIN actors' : actors'[id] = actors[id]
       /\ (pc = "destroy" /\ pc' = "idle") =>
            \A i \in 1..Len(DestroyedNames) : LiveNamed(DestroyedNames[i]) = {}]_vars

\* C13's case: a RestoreLevel has returned after its restore loop restored the placed
\* actor and its destroy loop removed it.
C13_Witness ==
    /\ pc = "idle"
    /\ lastOp.op = "RestoreLevel"
    /\ lastOp.found
    /\ saveData.LevelDataMap["Map"].DestroyedActors = <<GetLevelActorName(1)>>
    /\ 1 \in LevelActorsOf(saveData, "Map")
    /\ 1 \notin DOMAIN actors
    /\ \E i \in 1..Len(hookLog) : hookLog[i] = <<1, "RestoreCoreActorData">>
    /\ \E id \in DOMAIN actors : IsRuntimeActor(actors[id])

\* The name recorded at the position occurs at an earlier position of the list.
RecordedBefore(i) == \E j \in 1..(i - 1) : DestroyedNames[j] = DestroyedNames[i]

\* C14: UpdateLevelActorDestroyed records the name again when it is already recorded,
\* and the iteration of RestoreLevel's destroy loop on the later occurrence finds no
\* live actor of that name, removes nothing and goes on to the next name, so the
\* list has the effect of the set of its names.
C14_DestroyedTwiceAsOnce ==
    [][/\ \A id \in DOMAIN actors :
             UpdateLevelActorDestroyed(id) =>
                saveData'.LevelDataMap[actors[id].level].DestroyedActors =
                   Append(IF HasLevelData(saveData, actors[id].level)
                          THEN saveData.LevelDataMap[actors[id].level].DestroyedActors ELSE <<>>,
                          GetLevelActorName(id))
       /\ (pc = "destroy" /\ rl.nextDestroyed <= Len(DestroyedNames) /\ RecordedBefore(rl.nextDestroyed)) =>
            /\ LiveNamed(DestroyedNames[rl.nextDestroyed]) = {}
            /\ actors' = actors
            /\ pc' = "destroy"
            /\ rl'.nextDestroyed = rl.nextDestroyed + 1
       /\ (pc = "destroy" /\ pc' = "idle") =>
            \A id \in ActorsOfLevel(actors, rl.Level) :
               GetLevelActorName(id) \notin {DestroyedNames[i] : i \in 1..Len(DestroyedNames)}]_vars

\* C14's case: the destroy loop has gone through a list that names the placed actor
\* twice and is at its end, the actor removed.
C14_Witness ==
    /\ pc = "destroy"
    /\ DestroyedNames = <<GetLevelActorName(1), GetLevelActorName(1)>>
    /\ rl.nextDestroyed = 3
    /\ 1 \notin DOMAIN actors
    /\ 1 \in DOMAIN levelAsset

-----------------------------------------------------------------------------
(* Properties of repeated snapshots (checked under SpecProps, SpecGlobal)  *)

\* The record the snapshot of the actor wrote, in the store after the call.
WrittenRecord(id) ==
    RecordOf(saveData'.LevelDataMap[actors[id].level], shot'[id].wrote, shot'[id].key)

\* UpdateFromActor called once more, on the actor and the store the call left.
SecondUpdateFromActor(id) ==
    UpdateFromActor(id, actors'[id], saveData'.LevelDataMap[actors[id].level],
                    UsedGuids(actors', saveData'), classProps[actors[id].cls])

\* A snapshot of the actor that wrote a record.
SnapshotWrote(id) ==
    /\ UpdateFromActorCall(id)
    /\ ~HasSkipFlags(actors[id])
    /\ shot'[id].wrote # "none"

\* The second of two snapshots leaves the store and the actor as the first left them.
SecondSnapshotSame(id) ==
    /\ SecondUpdateFromActor(id).LD = saveData'.LevelDataMap[actors[id].level]
    /\ SecondUpdateFromActor(id).actor = actors'[id]

\* The record holds the core data and the property blob of this snapshot alone.
BlobsOfOneSnapshot(id) ==
    /\ WrittenRecord(id).CoreData = WriteCoreActorData(actors'[id])
    /\ Len(WrittenRecord(id).Properties.Data) = Cardinality(LeafKeys(classProps[actors[id].cls]))

\* C15: after a snapshot of an actor that wrote a record, a second snapshot of the
\* unchanged actor leaves the store as it is, the record holds the core data and
\* the property blob of one snapshot, and its offset table holds exactly one offset
\* per property of the class definition.
C15_SnapshotOverwrites ==
    [][\A id \in DOMAIN actors :
          SnapshotWrote(id) =>
             /\ SecondSnapshotSame(id)
             /\ BlobsOfOneSnapshot(id)
             /\ Len(WrittenRecord(id).Properties.PropertyOffsets) =
                   Len(saveData'.LevelDataMap[actors[id].level].Metadata
                          .ClassDefs[actors[id].cls].Properties)]_vars

-----------------------------------------------------------------------------
(* Properties of the hooks (checked under SpecGlobal) *)

\* How often the entry occurs in the log.
Count(log, e) == Cardinality({i \in 1..Len(log) : log[i] = e})

\* Both entries occur once, the first before the second.
OnceInOrder(log, e1, e2) ==
    /\ Count(log, e1) = 1
    /\ Count(log, e2) = 1
    /\ \A i, j \in 1..Len(log) : (log[i] = e1 /\ log[j] = e2) => i < j

\* No entry of the log is one of the hooks.
NoneOf(log, hooks) == \A i \in 1..Len(log) : log[i][2] \notin hooks

\* UpdateFromGlobalObject called once more, on the store the call left.
SecondUpdateFromGlobalObject(g) ==
    UpdateFromGlobalObjectOp(g, globalObjects[g], saveData'.GlobalData,
                             classProps[globalObjects[g].cls])

\* C16: a snapshot that writes the record of an object with the callback interface
\* runs SpudPreSaveState, then the engine's writes (core data for an actor, then the
\* properties), then SpudFinaliseSaveState, then SpudPostSaveState, once each, and
\* the record's custom data is what this finalize-save wrote, nothing of an earlier
\* snapshot; a snapshot of an object without the interface runs no hook and leaves
\* the record's custom data alone.
C16_SaveHooksInOrder ==
    [][/\ \A id \in DOMAIN actors :
             SnapshotWrote(id) =>
                IF ImplementsCallback(actors[id].cls)
                THEN /\ OnceInOrder(hookLog', <<id, "PreSave">>, <<id, "WriteCoreActorData">>)
                     /\ OnceInOrder(hookLog', <<id, "WriteCoreActorData">>, <<id, "VisitPersistentProperties">>)
                     /\ OnceInOrder(hookLog', <<id, "VisitPersistentProperties">>, <<id, "FinaliseSave">>)
                     /\ OnceInOrder(hookLog', <<id, "FinaliseSave">>, <<id, "PostSave">>)
                     /\ WrittenRecord(id).CustomData = CustomBlobOf(actors'[id])
                     /\ RecordOf(SecondUpdateFromActor(id).LD, shot'[id].wrote, shot'[id].key).CustomData
                           = CustomBlobOf(actors'[id])
                ELSE /\ NoneOf(hookLog', {"PreSave", "FinaliseSave", "PostSave"})
                     /\ OnceInOrder(hookLog', <<id, "WriteCoreActorData">>, <<id, "VisitPersistentProperties">>)
       /\ \A g \in DOMAIN globalObjects :
             UpdateFromGlobalObject(g) =>
                IF ImplementsCallback(globalObjects[g].cls)
                THEN /\ OnceInOrder(hookLog', <<g, "PreSave">>, <<g, "VisitPersistentProperties">>)
                     /\ OnceInOrder(hookLog', <<g, "VisitPersistentProperties">>, <<g, "FinaliseSave">>)
                     /\ OnceInOrder(hookLog', <<g, "FinaliseSave">>, <<g, "PostSave">>)
                     /\ saveData'.GlobalData.Objects[GetGlobalObjectID(g)].CustomData
                           = CustomBlobOf(globalObjects[g])
                     /\ SecondUpdateFromGlobalObject(g).GD = saveData'.GlobalData
                ELSE /\ NoneOf(hookLog', {"PreSave", "FinaliseSave", "PostSave"})
                     /\ saveData'.GlobalData.Objects[GetGlobalObjectID(g)].CustomData = <<>>]_vars

\* C16's case: a global object with the callback interface has been snapshotted, and
\* so has the placed actor of the first level, which has the interface too.
C16_Witness ==
    /\ \E g \in DOMAIN globalObjects :
          /\ ImplementsCallback(globalObjects[g].cls)
          /\ hookLog = <<<<g, "PreSave">>, <<g, "VisitPersistentProperties">>,
                         <<g, "FinaliseSave">>, <<g, "PostSave">>>>
          /\ saveData.GlobalData.Objects[GetGlobalObjectID(g)].CustomData = CustomBlobOf(globalObjects[g])
    /\ 1 \in DOMAIN shot
    /\ shot[1].wrote = "level"
    /\ ImplementsCallback(actors[1].cls)
    /\ saveData.LevelDataMap["Map"].LevelActors[1].CustomData = CustomBlobOf(actors[1])

\* The custom data of the record the RestoreActor call found for the actor.
StoredCustomData(id) ==
    RecordOf(saveData.LevelDataMap[actors[id].level], lastOp'.where, lastOp'.key).CustomData

\* C17: a restore that finds the record of an object with the callback interface
\* runs SpudPreLoadState, then the engine's restores (core data for an actor, then the
\* properties), then SpudFinaliseLoadState with a reader over the record's stored
\* custom data, then SpudPostLoadState, once each; a restore of an object without
\* the interface runs no hook, and a restore that finds no record runs nothing.
C17_LoadHooksInOrder ==
    [][/\ \A id \in DOMAIN actors :
             RestoreActorCall(id) =>
                IF ~lastOp'.found THEN hookLog' = <<>> /\ actors' = actors
                ELSE IF ImplementsCallback(actors[id].cls)
                THEN /\ OnceInOrder(hookLog', <<id, "PreLoad">>, <<id, "RestoreCoreActorData">>)
                     /\ OnceInOrder(hookLog', <<id, "RestoreCoreActorData">>, <<id, "RestoreObjectProperties">>)
                     /\ OnceInOrder(hookLog', <<id, "RestoreObjectProperties">>,
                                    <<id, "FinaliseLoad", StoredCustomData(id)>>)
                     /\ OnceInOrder(hookLog', <<id, "FinaliseLoad", StoredCustomData(id)>>, <<id, "PostLoad">>)
                     /\ Len(hookLog') = 5
                ELSE /\ NoneOf(hookLog', {"PreLoad", "FinaliseLoad", "PostLoad"})
                     /\ OnceInOrder(hookLog', <<id, "RestoreCoreActorData">>, <<id, "RestoreObjectProperties">>)
       /\ \A g \in DOMAIN globalObjects :
             RestoreGlobalObject(g) =>
                IF GetGlobalObjectID(g) \notin DOMAIN saveData.GlobalData.Objects
                THEN hookLog' = <<>> /\ globalObjects' = globalObjects /\ ~lastOp'.found
                ELSE IF ImplementsCallback(globalObjects[g].cls)
                THEN /\ OnceInOrder(hookLog', <<g, "PreLoad">>, <<g, "RestoreObjectProperties">>)
                     /\ OnceInOrder(hookLog', <<g, "RestoreObjectProperties">>,
                            <<g, "FinaliseLoad", saveData.GlobalData.Objects[GetGlobalObjectID(g)].CustomData>>)
                     /\ OnceInOrder(hookLog',
                            <<g, "FinaliseLoad", saveData.GlobalData.Objects[GetGlobalObjectID(g)].CustomData>>,
                            <<g, "PostLoad">>)
                     /\ Len(hookLog') = 4
                ELSE NoneOf(hookLog', {"PreLoad", "FinaliseLoad", "PostLoad"})]_vars

\* C17's case: RestoreActor has found the record of the placed actor, which has the
\* callback interface, and its finalize-load hook was given the custom data that the
\* actor's snapshot stored.
C17_Witness ==
    /\ lastOp.op = "RestoreActor"
    /\ lastOp.id = 1
    /\ lastOp.found
    /\ ImplementsCallback(actors[1].cls)
    /\ saveData.LevelDataMap["Map"].LevelActors[1].CustomData = CustomBlobOf(actors[1])
    /\ hookLog = <<<<1, "PreLoad">>, <<1, "RestoreCoreActorData">>, <<1, "RestoreObjectProperties">>,
                   <<1, "FinaliseLoad", CustomBlobOf(actors[1])>>, <<1, "PostLoad">>>>

-----------------------------------------------------------------------------
(* Properties of the restore direction as a whole (checked under SpecLookup) *)

\* What the store has allocated: level data, records, class definitions, interned
\* names and nested prefixes, per level and in the global section.
AllocatedIn(LD) ==
    [LevelActors |-> DOMAIN LD.LevelActors, SpawnedActors |-> DOMAIN LD.SpawnedActors,
     ClassDefs |-> DOMAIN LD.Metadata.ClassDefs, ClassNames |-> LD.Metadata.ClassNames,
     PropertyNames |-> LD.Metadata.PropertyNames, Prefixes |-> LD.Metadata.Prefixes]

Allocated(sd) ==
    [Levels |-> [L \in DOMAIN sd.LevelDataMap |-> AllocatedIn(sd.LevelDataMap[L])],
     Objects |-> DOMAIN sd.GlobalData.Objects,
     ClassDefs |-> DOMAIN sd.GlobalData.Metadata.ClassDefs,
     PropertyNames |-> sd.GlobalData.Metadata.PropertyNames,
     Prefixes |-> sd.GlobalData.Metadata.Prefixes]

\* A step of RestoreLevel, RestoreActor or RestoreGlobalObject.
RestoreStep ==
    \/ pc # "idle"
    \/ pc' # "idle"
    \/ \E id \in DOMAIN actors : RestoreActorCall(id)
    \/ \E g \in DOMAIN globalObjects : RestoreGlobalObject(g)

\* A step of UpdateFromLevel or UpdateFromGlobalObject.
SnapshotStep ==
    \/ \E L \in LevelNames : UpdateFromLevel(L)
    \/ \E g \in DOMAIN globalObjects : UpdateFromGlobalObject(g)

\* The GUIDs of the stored spawned-actor records.
StoredGuids(sd) ==
    UNION {{sd.LevelDataMap[L].SpawnedActors[k].Guid : k \in DOMAIN sd.LevelDataMap[L].SpawnedActors}
           : L \in DOMAIN sd.LevelDataMap}

\* C18: a step of RestoreLevel, RestoreActor or RestoreGlobalObject leaves the stored
\* state as it is (no level data, record, class definition, name or nested prefix is
\* added), leaves the SpudGuid of every live actor as it is, and gives an actor it
\* respawns the GUID of a stored record or none; whenever the store gains an entry or
\* a live actor's SpudGuid changes, the step is a snapshot.
C18_RestoreIsLookupOnly ==
    [][/\ RestoreStep =>
            /\ Allocated(saveData') = Allocated(saveData)
            /\ saveData' = saveData
            /\ \A id \in DOMAIN actors \cap DOMAIN actors' : actors'[id].guid = actors[id].guid
            /\ \A id \in DOMAIN actors' \ DOMAIN actors :
                  actors'[id].guid \in StoredGuids(saveData) \cup {InvalidGuid}
       /\ (\/ Allocated(saveData') # Allocated(saveData) /\ saveData' # EmptySaveData
           \/ \E id \in DOMAIN actors \cap DOMAIN actors' :
                 actors'[id].guid # actors[id].guid /\ actors'[id].runtime = actors[id].runtime)
          => SnapshotStep]_vars

\* C18's case: RestoreActor looked for the record of a runtime actor with a blank
\* SpudGuid in a level that has stored data, and RestoreGlobalObject would find no
\* record either: the actor's SpudGuid is still blank and the store has neither a
\* spawned record nor a global record, while its level data and class definitions
\* are those the snapshot allocated.
C18_Witness ==
    /\ lastOp.op = "RestoreActor"
    /\ lastOp.where = "spawned"
    /\ ~lastOp.found
    /\ lastOp.id \in DOMAIN actors
    /\ actors[lastOp.id].guid = InvalidGuid
    /\ HasGuidProperty(actors[lastOp.id].cls)
    /\ HasLevelData(saveData, "Map")
    /\ SpawnedOf(saveData, "Map") = {}
    /\ DOMAIN saveData.LevelDataMap["Map"].Metadata.ClassDefs = {"Door"}
    /\ DOMAIN saveData.GlobalData.Objects = {}

-----------------------------------------------------------------------------
(* Properties of the registries (checked under SpecGlobal) *)

\* The level data of the store without that of one level.
OtherLevels(sd, L) == [K \in DOMAIN sd.LevelDataMap \ {L} |-> sd.LevelDataMap[K]]

\* The properties a restore from the record leaves, by the registry it is given.
PropsRestoredBy(cname, props, Record, Meta) ==
    RestoreObjectProperties(cname, classProps[cname], props, Record.Properties, Meta).props

\* C19: UpdateFromGlobalObject leaves the data and registry of every level as they
\* are, and RestoreGlobalObject restores by GlobalData.Metadata; UpdateFromActor
\* leaves the global section and the data of every other level as they are, and
\* RestoreActor restores by the Metadata of the actor's own level; no restore changes
\* a registry.
C19_RegistriesApart ==
    [][/\ \A g \in DOMAIN globalObjects :
             /\ UpdateFromGlobalObject(g) => saveData'.LevelDataMap = saveData.LevelDataMap
             /\ RestoreGlobalObject(g) =>
                  /\ saveData' = saveData
                  /\ lastOp'.found =>
                        globalObjects'[g].props =
                           PropsRestoredBy(globalObjects[g].cls, globalObjects[g].props,
                                           saveData.GlobalData.Objects[GetGlobalObjectID(g)],
                                           saveData.GlobalData.Metadata)
       /\ \A id \in DOMAIN actors :
             /\ UpdateFromActorCall(id) =>
                  /\ saveData'.GlobalData = saveData.GlobalData
                  /\ OtherLevels(saveData', actors[id].level) = OtherLevels(saveData, actors[id].level)
             /\ RestoreActorCall(id) =>
                  /\ saveData' = saveData
                  /\ lastOp'.found =>
                        actors'[id].props =
                           PropsRestoredBy(actors[id].cls, actors[id].props,
                               RecordOf(saveData.LevelDataMap[actors[id].level], lastOp'.where, lastOp'.key),
                               saveData.LevelDataMap[actors[id].level].Metadata)]_vars

\* C19's case: the global section and the two levels each hold the class definition
\* of their own object and of no other, and RestoreGlobalObject has restored a changed
\* global object from its record by the fast path.
C19_Witness ==
    /\ DOMAIN saveData.GlobalData.Metadata.ClassDefs = {"Settings"}
    /\ DOMAIN saveData.LevelDataMap = {"Map", "Cave"}
    /\ DOMAIN saveData.LevelDataMap["Map"].Metadata.ClassDefs = {"Door"}
    /\ DOMAIN saveData.LevelDataMap["Cave"].Metadata.ClassDefs = {"Gate"}
    /\ lastOp.op = "RestoreGlobalObject"
    /\ lastOp.found
    /\ lastOp.path = "fast"
    /\ \E g \in DOMAIN globalObjects :
          /\ saveData.GlobalData.Objects[GetGlobalObjectID(g)].Properties.Data = <<MaxVal, 0>>
          /\ globalObjects[g].props[<<RootPrefix, "A">>] = MaxVal

-----------------------------------------------------------------------------
(* Properties of the respawn policy (checked under SpecPolicy) *)

\* The policy's answer for a class: its override if it has one, else whether its
\* kind is outside the refused kinds.
PolicyApproves(c, RefusedKinds) ==
    IF RespawnModeOf(c) = "AlwaysRespawn" THEN TRUE
    ELSE IF RespawnModeOf(c) = "NeverRespawn" THEN FALSE
    ELSE KindOf(c) \notin RefusedKinds

\* Snapshot and restore treat the runtime actor as spawned exactly when the policy,
\* with these refused kinds, approves its class.
RoutedByPolicy(RefusedKinds) ==
    \A id \in DOMAIN actors :
       /\ (UpdateFromActorCall(id) /\ IsRuntimeActor(actors[id]) /\ ~HasSkipFlags(actors[id])) =>
             (shot'[id].wrote = "spawned" <=> PolicyApproves(actors[id].cls, RefusedKinds))
       /\ (RestoreActorCall(id) /\ IsRuntimeActor(actors[id]) /\ ~HasSkipFlags(actors[id])
           /\ HasLevelData(saveData, actors[id].level)) =>
             (lastOp'.where = "spawned" <=> PolicyApproves(actors[id].cls, RefusedKinds))

\* C20 as the specification states it: the default policy refuses game modes, game
\* states, pawns, characters and controllers.
C20_RefusesControllers ==
    [][RoutedByPolicy({"GameMode", "GameState", "Pawn", "Character", "Controller"})]_vars

\* C20: the override of the actor's class decides whatever its kind; without one the
\* policy refuses game modes, game states, pawns and characters, with or without a
\* SpudGuid, and approves every other kind, controllers among them.
C20_RespawnPolicy ==
    [][RoutedByPolicy({"GameMode", "GameState", "Pawn", "Character"})]_vars

\* C20's case: a runtime controller that carries a SpudGuid has been snapshotted as a
\* spawned actor and RestoreActor has found its record among the spawned actors.
C20_Witness ==
    \E id \in DOMAIN actors :
       /\ KindOf(actors[id].cls) = "Controller"
       /\ RespawnModeOf(actors[id].cls) = "Default"
       /\ actors[id].guid = StaticGuid
       /\ id \in DOMAIN shot
       /\ shot[id].wrote = "spawned"
       /\ lastOp.op = "RestoreActor"
       /\ lastOp.found
       /\ lastOp.where = "spawned"

-----------------------------------------------------------------------------
(* Properties of the identity error at snapshot (checked under Spec) *)

\* The snapshot routes the actor as spawned and can get no GUID for it: its SpudGuid
\* is not valid and its class has no SpudGuid property to hold a new one.
NoTokenObtainable(a) ==
    /\ IsPersistentClass(a.cls)
    /\ ~HasSkipFlags(a)
    /\ ShouldActorBeRespawnedOnRestore(a)
    /\ ~GuidIsValid(GetGuidProperty(a))
    /\ ~HasGuidProperty(a.cls)

\* The other actors of the level that a snapshot stores.
Storable(L) ==
    {id \in ActorsOfLevel(actors, L) :
        IsPersistentClass(actors[id].cls) /\ ~HasSkipFlags(actors[id]) /\ ~NoTokenObtainable(actors[id])}

\* UpdateFromActor on the actor, against the level data the store holds now.
UpdateFromActorNow(id) ==
    UpdateFromActor(id, actors[id], saveData.LevelDataMap[actors[id].level],
                    UsedGuids(actors, saveData), classProps[actors[id].cls])

\* C21: UpdateFromActor on an actor that is routed as spawned and can get no GUID
\* adds no record, changes no record and runs no hook; in a snapshot of its level
\* the actor gets no record and no hook, stays as it is, and every other storable
\* actor of the level gets its record (by name, or by its GUID).
C21_NoTokenExcluded ==
    [][/\ \A id \in DOMAIN actors :
             (NoTokenObtainable(actors[id]) /\ HasLevelData(saveData, actors[id].level)) =>
                /\ UpdateFromActorNow(id).wrote = "none"
                /\ UpdateFromActorNow(id).hooks = <<>>
                /\ UpdateFromActorNow(id).actor = actors[id]
                /\ UpdateFromActorNow(id).LD.SpawnedActors =
                      saveData.LevelDataMap[actors[id].level].SpawnedActors
                /\ UpdateFromActorNow(id).LD.LevelActors =
                      saveData.LevelDataMap[actors[id].level].LevelActors
       /\ \A L \in LevelNames :
             UpdateFromLevel(L) =>
                /\ \A id \in ActorsOfLevel(actors, L) :
                      NoTokenObtainable(actors[id]) =>
                         /\ actors'[id] = actors[id]
                         /\ GetLevelActorName(id) \notin LevelActorsOf(saveData', L)
                         /\ \A i \in 1..Len(hookLog') : hookLog'[i][1] # id
                /\ LevelActorsOf(saveData', L) =
                      {GetLevelActorName(id) : id \in {j \in Storable(L) : ~IsRuntimeActor(actors[j])}}
                /\ SpawnedOf(saveData', L) =
                      {GuidKey(actors'[id].guid) : id \in {j \in Storable(L) : IsRuntimeActor(actors[j])}}
                /\ \A id \in Storable(L) :
                      \E i \in 1..Len(hookLog') : hookLog'[i] = <<id, "VisitPersistentProperties">>]_vars

\* C21's case: a snapshot of the level has stored the placed actor by name and a
\* runtime Enemy by its GUID, next to a live runtime Crate that has no SpudGuid
\* property and got no record.
C21_Witness ==
    /\ pc = "idle"
    /\ \E id \in DOMAIN actors : NoTokenObtainable(actors[id])
    /\ \E id \in DOMAIN actors :
          /\ actors[id].cls = "Enemy"
          /\ IsRuntimeActor(actors[id])
          /\ SpawnedOf(saveData, "Map") = {GuidKey(actors[id].guid)}
          /\ \E i \in 1..Len(hookLog) : hookLog[i] = <<id, "PostSave">>
    /\ LevelActorsOf(saveData, "Map") = {GetLevelActorName(1)}
    /\ \E i \in 1..Len(hookLog) : hookLog[i] = <<1, "PostSave">>

-----------------------------------------------------------------------------
(* Properties of the calls scoped to one level (checked under SpecLevels) *)

\* The live actors that do not belong to level L.
ActorsOutside(acts, L) == [id \in {i \in DOMAIN acts : acts[i].level # L} |-> acts[id]]

\* C22: a call scoped to one level touches only that level.  UpdateFromLevel(World, L)
\* leaves the stored data of every other level as it is (none is added, removed or
\* changed) and leaves the live actors of the other levels as they are; every step of
\* RestoreLevel of level L (its lookup and each iteration of its respawn, restore and
\* destroy loops) leaves the live actors of the other levels as they are: none is
\* spawned, destroyed or modified.
C22_SingleLevelScope ==
    [][/\ \A L \in WorldLevels :
             UpdateFromLevel(L) =>
                /\ OtherLevels(saveData', L) = OtherLevels(saveData, L)
                /\ ActorsOutside(actors', L) = ActorsOutside(actors, L)
       /\ \A L \in WorldLevels :
             RestoreLevelBegin(L) => ActorsOutside(actors', L) = ActorsOutside(actors, L)
       /\ pc # "idle" => ActorsOutside(actors', rl.Level) = ActorsOutside(actors, rl.Level)
      ]_vars

\* RestoreLevel of "Map" has respawned a runtime actor and restored the placed actor,
\* and is in its destroy loop, while the other level has stored data of its own (a
\* record of its placed actor and a destroyed name) and its placed actor is live with
\* a property set since that snapshot.
C22_Witness ==
    /\ pc = "destroy"
    /\ rl.Level = "Map"
    /\ \E id \in ActorsOfLevel(actors, "Map") :
          IsRuntimeActor(actors[id]) /\ GetGuidProperty(actors[id]) \in DOMAIN rl.RuntimeObjectsByGuid
    /\ \E i \in 1..Len(hookLog) : hookLog[i] = <<1, "PostLoad">>
    /\ LevelActorsOf(saveData, "Cave") = {GetLevelActorName(2)}
    /\ LevelActorsOf(saveData, "Map") = {GetLevelActorName(1)}
    /\ saveData.LevelDataMap["Cave"].DestroyedActors # <<>>
    /\ 2 \in DOMAIN actors
    /\ actors[2].props[<<RootPrefix, "A">>] = MaxVal

-----------------------------------------------------------------------------
(* Properties of the core actor data (checked under SpecActor) *)

\* The root component of the actor is movable and simulating physics.
MovableAndSimulating(a) == MovableRoot(a.cls) /\ a.physics

\* C23: the core data a snapshot writes is the current version tag followed by the
\* hidden flag, the transform, the linear velocity and the angular velocity of the
\* actor, the two velocities being zero unless the root component is movable and
\* simulating physics; a restore from a record with that version tag sets the hidden
\* flag and the transform of the actor from the record and applies the two stored
\* velocities only to an actor whose root is movable and simulating physics (any
\* other actor keeps the velocities it has).
C23_CoreActorData ==
    [][\A id \in DOMAIN actors :
          /\ SnapshotWrote(id) =>
                /\ Len(WrittenRecord(id).CoreData) = 5
                /\ WrittenRecord(id).CoreData[1] = CoreDataVersion
                /\ WrittenRecord(id).CoreData[2] = actors[id].core.Hidden
                /\ WrittenRecord(id).CoreData[3] = actors[id].core.Transform
                /\ WrittenRecord(id).CoreData[4] =
                      (IF MovableAndSimulating(actors[id]) THEN actors[id].core.Velocity ELSE 0)
                /\ WrittenRecord(id).CoreData[5] =
                      (IF MovableAndSimulating(actors[id]) THEN actors[id].core.AngularVelocity ELSE 0)
          /\ (RestoreActorCall(id) /\ lastOp'.found) =>
                /\ RecordRestored(id).CoreData[1] = CoreDataVersion
                /\ actors'[id].core.Hidden = RecordRestored(id).CoreData[2]
                /\ actors'[id].core.Transform = RecordRestored(id).CoreData[3]
                /\ actors'[id].core.Velocity =
                      (IF MovableAndSimulating(actors[id]) THEN RecordRestored(id).CoreData[4]
                       ELSE actors[id].core.Velocity)
                /\ actors'[id].core.AngularVelocity =
                      (IF MovableAndSimulating(actors[id]) THEN RecordRestored(id).CoreData[5]
                       ELSE actors[id].core.AngularVelocity)
                /\ actors'[id].physics = actors[id].physics
      ]_vars

\* C23's case: an actor with a static root that reports simulating physics was
\* restored from a record of its own whose velocities are zero although it was moving
\* at the snapshot; it has the stored transform and hidden flag and keeps the
\* velocity it had before the restore.
C23_Witness ==
    /\ lastOp.op = "RestoreActor"
    /\ lastOp.found
    /\ lastOp.id \in DOMAIN actors
    /\ lastOp.id \in DOMAIN shot
    /\ ~MovableRoot(actors[lastOp.id].cls)
    /\ actors[lastOp.id].physics
    /\ shot[lastOp.id].actor.core.Velocity = MaxVal
    /\ LET Record == RecordOf(saveData.LevelDataMap[actors[lastOp.id].level], lastOp.where, lastOp.key)
       IN /\ Record.CoreData = <<CoreDataVersion, TRUE, MaxVal, 0, 0>>
          /\ actors[lastOp.id].core.Transform = MaxVal
          /\ actors[lastOp.id].core.Hidden
    /\ actors[lastOp.id].core.Velocity = MaxVal
    /\ actors[lastOp.id].core.AngularVelocity = MaxVal

-----------------------------------------------------------------------------
(* Properties of the fast path (checked under SpecFast) *)

\* RestoreActor restores the actor's properties by the fast path.
RestoresByFastPath(id) ==
    /\ RestoreActorCall(id)
    /\ lastOp'.found
    /\ lastOp'.path = "fast"

\* The fast-path visitor after the first k properties of the live class were visited.
FastVisitorAfter(id, k) ==
    VisitForRestore(SubSeq(classProps[actors[id].cls], 1, k), TRUE, StoredClassDef(id),
                    saveData.LevelDataMap[actors[id].level].Metadata,
                    RecordRestored(id).Properties.Data,
                    [it |-> 1, pos |-> 0, props |-> actors[id].props, pastEnd |-> FALSE])

\* The leaves among the first k properties of the live class.
LeavesBefore(id, k) == Cardinality({j \in 1..k : ~IsCustomStructProperty(classProps[actors[id].cls][j])})

\* C24: on the fast path the k-th visited leaf is paired with the k-th stored
\* property definition, a custom struct property does not move the stored iterator,
\* the iterator is inside ClassDef.Properties at every visit (also when a struct is
\* the last property visited) and is never dereferenced at its end, and after the
\* traversal it stands at the end: every stored property was consumed exactly once.
C24_FastPathLockstep ==
    [][\A id \in DOMAIN actors :
          RestoresByFastPath(id) =>
             /\ \A k \in 1..Len(classProps[actors[id].cls]) :
                   /\ FastVisitorAfter(id, k - 1).it = LeavesBefore(id, k - 1) + 1
                   /\ FastVisitorAfter(id, k - 1).it <= Len(StoredClassDef(id).Properties)
                   /\ IF IsCustomStructProperty(classProps[actors[id].cls][k])
                      THEN FastVisitorAfter(id, k).it = FastVisitorAfter(id, k - 1).it
                      ELSE /\ FastVisitorAfter(id, k).it = FastVisitorAfter(id, k - 1).it + 1
                           /\ StoredClassDef(id).Properties[LeavesBefore(id, k)]
                                 = PropertyDef(classProps[actors[id].cls][k])
             /\ ~lastOp'.pastEnd
             /\ FastVisitorAfter(id, Len(classProps[actors[id].cls])).it
                   = Len(StoredClassDef(id).Properties) + 1]_vars

\* The same, leaving aside where the iterator stands when a custom struct is visited:
\* the leaves and the stored definitions are paired in order, a struct does not move
\* the iterator, every leaf finds the iterator inside the list, and the traversal
\* ends with every stored property consumed once.
C24_LeavesInLockstep ==
    [][\A id \in DOMAIN actors :
          RestoresByFastPath(id) =>
             /\ \A k \in 1..Len(classProps[actors[id].cls]) :
                   /\ FastVisitorAfter(id, k - 1).it = LeavesBefore(id, k - 1) + 1
                   /\ IF IsCustomStructProperty(classProps[actors[id].cls][k])
                      THEN FastVisitorAfter(id, k).it = FastVisitorAfter(id, k - 1).it
                      ELSE /\ FastVisitorAfter(id, k - 1).it <= Len(StoredClassDef(id).Properties)
                           /\ FastVisitorAfter(id, k).it = FastVisitorAfter(id, k - 1).it + 1
                           /\ StoredClassDef(id).Properties[LeavesBefore(id, k)]
                                 = PropertyDef(classProps[actors[id].cls][k])
             /\ FastVisitorAfter(id, Len(classProps[actors[id].cls])).it
                   = Len(StoredClassDef(id).Properties) + 1]_vars

-----------------------------------------------------------------------------
(* Properties of the respawn after the scene was cleared (checked under    *)
(* SpecUnloadable)                                                         *)

\* The live actors of the level that carry the GUID after the step.
InstancesOf(Guid, L) == {id \in ActorsOfLevel(actors', L) : GetGuidProperty(actors'[id]) = Guid}

\* The actor, after the step, has the hidden flag, the transform, the velocities (on
\* a movable root that simulates physics) and the property of the record.
HoldsRecord(id, Record) ==
    /\ actors'[id].core.Hidden = Record.CoreData[2]
    /\ actors'[id].core.Transform = Record.CoreData[3]
    /\ MovableAndSimulating(actors'[id]) =>
          /\ actors'[id].core.Velocity = Record.CoreData[4]
          /\ actors'[id].core.AngularVelocity = Record.CoreData[5]
    /\ actors'[id].props = [k \in {<<RootPrefix, "A">>} |-> Record.Properties.Data[1]]

\* C25: when RestoreLevel was called on a level whose scene held no runtime actor
\* (the map was loaded afresh after the snapshot), then on its return every stored
\* spawned record whose class loads has exactly one live actor of the level carrying
\* its GUID; that actor is a runtime actor of the recorded class, and it was restored
\* once, within this RestoreLevel, from that record: core data and properties.
C25_RespawnedOnceAndRestored ==
    [][(pc = "destroy" /\ pc' = "idle" /\ lastOp.op = "RestoreLevel" /\ lastOp.fresh) =>
          \A k \in Respawnable(saveData.LevelDataMap[rl.Level]) :
             /\ Cardinality(InstancesOf(saveData.LevelDataMap[rl.Level].SpawnedActors[k].Guid, rl.Level)) = 1
             /\ \A id \in InstancesOf(saveData.LevelDataMap[rl.Level].SpawnedActors[k].Guid, rl.Level) :
                   /\ IsRuntimeActor(actors'[id])
                   /\ GetClassName(actors'[id]) =
                         GetClassNameFromID(saveData.LevelDataMap[rl.Level].Metadata,
                                            saveData.LevelDataMap[rl.Level].SpawnedActors[k].ClassID)
                   /\ rl.RuntimeObjectsByGuid[saveData.LevelDataMap[rl.Level].SpawnedActors[k].Guid] = id
                   /\ Count(hookLog', <<id, "RestoreCoreActorData">>) = 1
                   /\ Count(hookLog', <<id, "RestoreObjectProperties">>) = 1
                   /\ HoldsRecord(id, saveData.LevelDataMap[rl.Level].SpawnedActors[k])]_vars

\* C25's case: RestoreLevel on a freshly loaded map has returned; two spawned records
\* of different classes each have their live actor, with the property value MaxVal
\* that the snapshot stored (a new actor has 0).
C25_Witness ==
    /\ pc = "idle"
    /\ lastOp.op = "RestoreLevel"
    /\ lastOp.fresh
    /\ Cardinality(SpawnedOf(saveData, "Map")) = 2
    /\ \A k \in SpawnedOf(saveData, "Map") :
          \E id \in ActorsOfLevel(actors, "Map") :
             /\ GetGuidProperty(actors[id]) = saveData.LevelDataMap["Map"].SpawnedActors[k].Guid
             /\ actors[id].props[<<RootPrefix, "A">>] = MaxVal
             /\ actors[id].core.Transform = MaxVal
             /\ \E i \in 1..Len(hookLog) : hookLog[i] = <<id, "RestoreObjectProperties">>
    /\ \E id \in DOMAIN actors : actors[id].cls = "Enemy"
    /\ \E id \in DOMAIN actors : actors[id].cls = "Pickup"

-----------------------------------------------------------------------------
(* Properties of the keys of the store (checked under SpecLookup) *)

\* Every record of the store is under its own key: a level's data under its Name, a
\* level actor's and a global object's record under its Name, a spawned actor's
\* record under the string form of its Guid, which is valid.
KeysAreOwn(sd) ==
    /\ \A L \in DOMAIN sd.LevelDataMap :
          /\ sd.LevelDataMap[L].Name = L
          /\ \A n \in DOMAIN sd.LevelDataMap[L].LevelActors :
                sd.LevelDataMap[L].LevelActors[n].Name = n
          /\ \A k \in DOMAIN sd.LevelDataMap[L].SpawnedActors :
                /\ GuidIsValid(sd.LevelDataMap[L].SpawnedActors[k].Guid)
                /\ k = GuidKey(sd.LevelDataMap[L].SpawnedActors[k].Guid)
    /\ \A g \in DOMAIN sd.GlobalData.Objects : sd.GlobalData.Objects[g].Name = g

\* A find-or-create accessor asked for a key that exists finds the record and leaves
\* the store as it is.
AccessorsFindExisting ==
    /\ \A L \in DOMAIN saveData.LevelDataMap : GetLevelData(saveData, L, TRUE) = saveData
    /\ \A id \in DOMAIN actors :
          HasLevelData(saveData, actors[id].level) =>
             /\ GetLevelActorName(id) \in LevelActorsOf(saveData, actors[id].level) =>
                   /\ GetLevelActorData(id, actors[id], saveData.LevelDataMap[actors[id].level], TRUE).found
                   /\ GetLevelActorData(id, actors[id], saveData.LevelDataMap[actors[id].level], TRUE).LD
                         = saveData.LevelDataMap[actors[id].level]
             /\ GuidKey(GetGuidProperty(actors[id])) \in SpawnedOf(saveData, actors[id].level) =>
                   /\ GetSpawnedActorData(actors[id], saveData.LevelDataMap[actors[id].level], TRUE,
                                          UsedGuids(actors, saveData)).found
                   /\ GetSpawnedActorData(actors[id], saveData.LevelDataMap[actors[id].level], TRUE,
                                          UsedGuids(actors, saveData)).LD
                         = saveData.LevelDataMap[actors[id].level]
    /\ \A g \in DOMAIN globalObjects :
          GetGlobalObjectID(g) \in DOMAIN saveData.GlobalData.Objects =>
             GetGlobalObjectData(saveData.GlobalData, GetGlobalObjectID(g), TRUE).GD = saveData.GlobalData

\* A spawned record a step adds is under the string form of the GUID that a live
\* runtime actor of the level, of the recorded class, carries after the step.
NewSpawnedAreOfActors ==
    \A L \in DOMAIN saveData'.LevelDataMap :
       \A k \in SpawnedOf(saveData', L) \ SpawnedOf(saveData, L) :
          \E id \in ActorsOfLevel(actors', L) :
             /\ IsRuntimeActor(actors'[id])
             /\ GetGuidProperty(actors'[id]) = saveData'.LevelDataMap[L].SpawnedActors[k].Guid
             /\ GetClassName(actors'[id]) =
                   GetClassNameFromID(saveData'.LevelDataMap[L].Metadata,
                                      saveData'.LevelDataMap[L].SpawnedActors[k].ClassID)

\* C26: in every state reached by snapshot (and restore) calls, every level's data is
\* keyed by its own Name, every LevelActors and global-object record by its own
\* Name, every SpawnedActors record by the string form of its own Guid, which is
\* valid; a spawned record is created under the GUID of the actor it is created for;
\* and a find-or-create accessor asked for an existing key returns the existing
\* record without adding or replacing one.
C26_StoreKeys ==
    /\ [](KeysAreOwn(saveData) /\ AccessorsFindExisting)
    /\ [][NewSpawnedAreOfActors]_vars

\* C26's case: after a snapshot of the level and of the global object the store holds
\* a level-actor record with a stored value, a spawned record of a live Enemy and a
\* global record.
C26_Witness ==
    /\ pc = "idle"
    /\ HasLevelData(saveData, "Map")
    /\ LevelActorsOf(saveData, "Map") = {GetLevelActorName(1)}
    /\ saveData.LevelDataMap["Map"].LevelActors[GetLevelActorName(1)].CoreData # <<>>
    /\ \E id \in DOMAIN actors :
          /\ actors[id].cls = "Enemy"
          /\ GuidIsValid(GetGuidProperty(actors[id]))
          /\ SpawnedOf(saveData, "Map") = {GuidKey(GetGuidProperty(actors[id]))}
    /\ DOMAIN saveData.GlobalData.Objects = {GetGlobalObjectID(g) : g \in DOMAIN globalObjects}
    /\ DOMAIN globalObjects # {}

-----------------------------------------------------------------------------
(* Properties of the level name (checked under SpecName) *)

\* The package name is that of the play-in-editor copy, of instance N, of the map.
IsPieCopyOf(OuterMost, N, Map) == \E Folder \in MapFolders : OuterMost = PiePackage(Folder, N, Map)

\* The package name is that of the map itself.
IsPackageOf(OuterMost, Map) == \E Folder \in MapFolders : OuterMost = Folder \o Map

\* C27: GetLevelNameForObject returns what follows the last "/" of the outermost
\* package name, without the play-in-editor prefix UEDPIE_N_ whatever the number N:
\* the package of a map and every play-in-editor copy of it give the name of the map;
\* an object without outermost package gives the empty name.
C27_LevelNameWithoutPiePrefix ==
    levelNameOp.called =>
       /\ \A Map \in MapNames :
             /\ IsPackageOf(levelNameOp.OuterMost, Map) => levelNameOp.LevelName = Map
             /\ \A N \in PieNumbers :
                   IsPieCopyOf(levelNameOp.OuterMost, N, Map) => levelNameOp.LevelName = Map
       /\ levelNameOp.OuterMost = NoPackage => levelNameOp.LevelName = <<>>

\* The same for the play-in-editor instances with a number of one digit only: the
\* nine characters dropped are the prefix of such a copy.
C27_OneDigitPiePrefix ==
    levelNameOp.called =>
       /\ \A Map \in MapNames :
             /\ IsPackageOf(levelNameOp.OuterMost, Map) => levelNameOp.LevelName = Map
             /\ \A N \in PieNumbers :
                   (IsPieCopyOf(levelNameOp.OuterMost, N, Map) /\ Len(N) = 1)
                      => levelNameOp.LevelName = Map
       /\ levelNameOp.OuterMost = NoPackage => levelNameOp.LevelName = <<>>

====
